---- MODULE Spec2Model ----
(***************************************************************************)
(* A model of the sps2 package manager core.                               *)
(*                                                                         *)
(*   SpecPlan / LiveSpecPlan : resolver/src/execution.rs, the execution    *)
(*       plan (batches, atomic in-degree countdown) driven by worker tasks *)
(*   SpecTxn : install/src/installer.rs, Installer clones running install, *)
(*       uninstall, update and rollback over one state database            *)
(*   SpecSeq : the same Installer used sequentially, with a history of the *)
(*       persisted state records                                           *)
(*   SpecGuard : the verification guard of section 4.8 (verify, heal) with *)
(*       the policies of config/src/guard.rs                               *)
(*   SpecRes : resources/src/manager.rs, tasks sharing the three semaphores*)
(*   SpecCache : index/src/cache.rs, save and load of the index cache      *)
(*   SpecFetch : builder/src/api.rs, fetch of one download                 *)
(*   SpecRec : install/src/validation/pipeline/recovery.rs                 *)
(*   SpecBuild : builder build phases and the install drivers              *)
(*   SpecTar : builder/src/api.rs, extraction of tar and zip archives      *)
(*   SpecVer : types/src/version.rs, version constraints                   *)
(*   SpecLegacy : config/src/guard.rs, apply_legacy_fields                 *)
(*   SpecPlanAgain, SpecPlanPartial : the execution plan with repeated     *)
(*       completions, and with a sorted list that leaves packages out      *)
(*   SpecExec : builder/src/environment/execution.rs, the read loop        *)
(*   SpecApi : builder/src/api.rs, downloads, patches, build-system steps  *)
(***************************************************************************)
EXTENDS Integers, Sequences, FiniteSets, TLC

(***************************************************************************)
(* Bounds                                                                  *)
(***************************************************************************)
\* number of packages of the dependency graphs that are explored
NumPkgs == 3

PackageId == 1..NumPkgs

VARIABLES
    \* ---- resolver/src/execution.rs ----
    phase,        \* "input" | "planned" | "running": position of the driver
    graph,        \* DependencyGraph: [nodes, edges]; edges[from] = to_ids
    sorted,       \* the topologically sorted input of from_sorted_packages
    batches,      \* ExecutionPlan.batches
    metadata,     \* ExecutionPlan.metadata: id -> [in_degree, parents]
    st,           \* per package: "idle" | "running" | "completing" | "done"
    todo,         \* per complete_package call: parents not yet visited
    newly_ready,  \* per complete_package call: the local newly_ready vector
    reported,     \* packages handed to the driver as ready
    decOrder,     \* history: per package, the callers that decremented it, in order
    returned,     \* history: per package, the value its complete_package call returned
    \* ---- install/src/installer.rs and the state engine ----
    state_retention, \* InstallConfig.state_retention
    db,           \* state database: recorded id -> [parent, packages]
    dirs,         \* states/<id> directory: "none" | "partial" | "full"
    store,        \* PackageStore: the packages whose objects are in the store
    live,         \* target of the live-prefix symlink (the current pointer)
    tmp_link,     \* target of the temporary symlink of an activation, or NoState
    lock,         \* holder of the state lock, or NoOne
    nextId,       \* next fresh state id / timestamp
    inst,         \* per Installer clone: position and locals of its call
    journal,      \* history: every record ever persisted, with the operation
                  \* that created it; empty where no history is kept
    \* ---- the verification guard (section 4.8) and config/src/guard.rs ----
    gpc,          \* position of the guard pass: "start" | "verified" | "healed" | "reverified"
    files,        \* per path of the live prefix: the condition of the file
    in_store,     \* per path: whether the store has the object to repair it from
    discrepancy_handling, \* VerificationConfig.discrepancy_handling
    user_file_policy,     \* VerificationConfig.user_file_policy
    orphaned_file_action, \* VerificationConfig.orphaned_file_action
    report,       \* the discrepancies of the last verify
    heal_result,  \* "none" | "ok" | "failed": what heal returned
    \* ---- resources/src/manager.rs ----
    limits,       \* ResourceLimits: per operation kind, the number of permits
    available,    \* per semaphore: Semaphore::available_permits
    held,         \* per task and operation kind: OwnedSemaphorePermits it owns
    rpc,          \* per task: "idle", or the kind whose acquire it awaits
    last_try,     \* history: the last try_acquire: [kind, before, result]
    \* ---- index/src/cache.rs ----
    cache,        \* the cache directory and the save calls in flight:
                  \*   names: file name -> inode, or NoInode
                  \*   inodes: inode -> content of the file, a sequence of chunks
                  \*   nextInode: next fresh inode number
                  \*   saver: per task in IndexCache::save, [pc, fd, pos]
                  \*   saves: number of save calls started
                  \*   loaded: what the last IndexCache::load returned
    \* ---- builder/src/api.rs: BuilderApi::fetch ----
    fetch,        \* a BuilderApi and its working directory:
                  \*   downloads: BuilderApi.downloads, url -> path
                  \*   wfiles: file name -> hash of the content, or NoFile
                  \*   fcall: the call in progress, [pc, url, expected, attempts, errors]
                  \*   fresult: what the last fetch call returned
                  \*   fetches: number of fetch calls started
    \* ---- install/src/validation/pipeline/recovery.rs ----
    rec,          \* an ErrorRecoveryManager and the result it works on:
                  \*   strategy, max_errors, error_count, recovery_stats,
                  \*   custom_handlers (error type -> action): the fields
                  \*   vresult: the ValidationResult handed to resilient_validation
                  \*   rret: what the last handle_error or resilient_validation returned
                  \*   rerr: the error in it: "none" | "original" (the error of the
                  \*         operation) | "TooManyErrors" | "Unrecoverable"
                  \*   rcalls: number of handle_error and resilient_validation calls
    \* ---- builder: api.rs, environment/execution.rs, build_systems ----
    build,        \* the builds of one process:
                  \*   driver: per build, the build system of its recipe
                  \*   bphase: per build, the last phase completed, or "Failed"
                  \*   bpc: per build, the position inside the driver's install
                  \*   trail: history, per build, the phases in the order entered
                  \*   ran: history, per build, the commands executed
                  \*   process_env: DESTDIR in the environment of the process
                  \*   extra_env: per build, DESTDIR in BuildSystemContext.extra_env
    \* ---- builder/src/api.rs: extraction ----
    tar,          \* an archive and its extraction:
                  \*   archive: the entries of the archive, [path, dir]
                  \*   format: "tar" or "zip"
                  \*   extracted: [done, entries], the entries written
    \* ---- types/src/version.rs ----
    ver,          \* a VersionSpec and what was done with it:
                  \*   p: the VersionSpec, a sequence of [op, version]
                  \*   s: the string at hand, a sequence of characters
                  \*   from: "none" | "display" | "input", where s came from
                  \*   parsed: what VersionSpec::from_str(s) returned
                  \*   matched: the last matches call, [spec, version, result]
    \* ---- config/src/guard.rs: legacy fields ----
    vcfg,         \* a guard configuration as deserialized and its history:
                  \*   cfg: the VerificationConfig or GuardConfiguration
                  \*   loaded: history, cfg as it was deserialized
                  \*   first: history, cfg after the first apply_legacy_fields
                  \*   applied: number of apply_legacy_fields calls
    \* ---- builder/src/environment/execution.rs: the read loop ----
    exec,         \* one execute_command call and its child process:
                  \*   out, err: the lines the child writes to stdout, to stderr
                  \*   wout, werr: number of lines written so far
                  \*   closed_out, closed_err: the child has closed the stream
                  \*   nout, nerr: number of lines the readers have returned
                  \*   stdout_lines, stderr_lines: the two vectors of the loop
                  \*   events: the events sent, [stderr, line]
                  \*   err_eof: the stderr branch has seen end-of-file
                  \*   pc: "loop" | "wait" | "returned"
    \* ---- builder/src/api.rs: downloads and the working directory ----
    api           \* one BuilderApi and its working directory:
                  \*   downloads: the urls in self.downloads
                  \*   files: content of every source file, <<>> when absent
                  \*   last: the method that returned last, "new" at first
                  \*   result: "Ok" | "Err", the result of that method

planVars == <<phase, graph, sorted, batches, metadata, st, todo, newly_ready,
              reported, decOrder, returned>>

txnVars == <<state_retention, db, dirs, store, live, tmp_link, lock, nextId, inst,
             journal>>

guardVars == <<gpc, files, in_store, discrepancy_handling, user_file_policy,
               orphaned_file_action, report, heal_result>>

resVars == <<limits, available, held, rpc, last_try>>

\* the components after the resource manager
moreVars == <<cache, fetch, rec, build, tar, ver, vcfg, exec, api>>

\* the frames of the actions of one component
nonPlanVars == <<txnVars, guardVars, resVars, moreVars>>

nonTxnVars == <<planVars, guardVars, resVars, moreVars>>

nonGuardVars == <<planVars, txnVars, resVars, moreVars>>

nonResVars == <<planVars, txnVars, guardVars, moreVars>>

nonCacheVars ==
    <<planVars, txnVars, guardVars, resVars,
      fetch, rec, build, tar, ver, vcfg, exec, api>>

nonFetchVars ==
    <<planVars, txnVars, guardVars, resVars,
      cache, rec, build, tar, ver, vcfg, exec, api>>

nonRecVars ==
    <<planVars, txnVars, guardVars, resVars,
      cache, fetch, build, tar, ver, vcfg, exec, api>>

nonBuildVars ==
    <<planVars, txnVars, guardVars, resVars,
      cache, fetch, rec, tar, ver, vcfg, exec, api>>

nonTarVars ==
    <<planVars, txnVars, guardVars, resVars,
      cache, fetch, rec, build, ver, vcfg, exec, api>>

nonVerVars ==
    <<planVars, txnVars, guardVars, resVars,
      cache, fetch, rec, build, tar, vcfg, exec, api>>

nonLegacyVars ==
    <<planVars, txnVars, guardVars, resVars,
      cache, fetch, rec, build, tar, ver, exec, api>>

nonExecVars ==
    <<planVars, txnVars, guardVars, resVars,
      cache, fetch, rec, build, tar, ver, vcfg, api>>

nonApiVars ==
    <<planVars, txnVars, guardVars, resVars,
      cache, fetch, rec, build, tar, ver, vcfg, exec>>

vars == <<planVars, txnVars, guardVars, resVars, moreVars>>

(***************************************************************************)
(* Helpers                                                                 *)
(***************************************************************************)
Range(s) == {s[i] : i \in DOMAIN s}

Perms(S) == {s \in [1..Cardinality(S) -> S] : Range(s) = S}

\* dependencies of p: the from_ids of the edges that point to p
\* (edge direction dependency -> dependent, execution.rs:102)
DepsOf(p, e) == {f \in DOMAIN e : p \in e[f]}

\* s lists every element of S once and every dependency before its dependents
IsTopoSort(s, S, e) ==
    /\ Range(s) = S
    /\ Len(s) = Cardinality(S)
    /\ \A i, j \in DOMAIN s : s[j] \in e[s[i]] => i < j

(***************************************************************************)
(* NodeMeta (execution.rs:10-45)                                           *)
(***************************************************************************)
\* AtomicUsize: the counter wraps; the width is scaled to the integers of
\* the model checker
UsizeModulus == 2^16

\* AtomicUsize::fetch_sub(1): the stored value after the subtraction
FetchSub(old) == (old - 1) % UsizeModulus

\* a decrement that forgets the subtraction in the returned value
DecrementInDegreeStale(old) == old

\* a decrement that reports zero whatever the counter held
DecrementInDegreeZero(old) == 0

\* NodeMeta::decrement_in_degree: fetch_sub returns the previous value,
\* saturating_sub(1) gives the value reported to the caller
DecrementInDegree(old) == IF old = 0 THEN 0 ELSE old - 1

(***************************************************************************)
(* ExecutionPlan::from_sorted_packages (execution.rs:59-131)               *)
(***************************************************************************)
\* in-degree of a node: every entry of graph.edges whose to_ids contain it,
\* plus one
InDegreeOffByOne(p, e) == Cardinality({f \in DOMAIN e : p \in e[f]}) + 1

\* in-degree that only records whether a node has any dependency
InDegreeCapped(p, e) == IF {f \in DOMAIN e : p \in e[f]} = {} THEN 0 ELSE 1

\* execution.rs:71-75: count of the entries of graph.edges whose to_ids contain p
InDegree(p, e) == Cardinality({f \in DOMAIN e : p \in e[f]})

\* execution.rs:68-93: metadata for every sorted package that is a graph node,
\* parents = the to_ids of the package's own entry in graph.edges
InitMetadata(srt, g) ==
    [p \in {q \in Range(srt) : q \in g.nodes} |->
        [in_degree |-> InDegree(p, g.edges),
         parents   |-> IF p \in DOMAIN g.edges THEN g.edges[p] ELSE {}]]

\* counts the dependents instead of the dependencies (edge direction reversed)
DepsCountReversed(p, remaining, e) ==
    Cardinality({t \in remaining : p \in DOMAIN e /\ t \in e[p]})

\* execution.rs:104-110: entries of graph.edges from a remaining package to p
DepsCount(p, remaining, e) ==
    Cardinality({f \in DOMAIN e : f \in remaining /\ p \in e[f]})

\* a batch loop that forgets to stop on an empty remaining set of candidates
\* and puts every remaining package into one batch
MakeBatchesFlat(remaining, e) == IF remaining = {} THEN <<>> ELSE <<remaining>>

\* execution.rs:96-128: the batch loop.  A batch is built by iterating a
\* HashSet, so its order is arbitrary: a batch is modelled as a set and the
\* properties quantify over every order of it.
RECURSIVE MakeBatches(_, _)
MakeBatches(remaining, e) ==
    IF remaining = {} THEN <<>>
    ELSE LET batch == {p \in remaining : DepsCount(p, remaining, e) = 0}
         IN  IF batch = {} THEN <<>>
             ELSE <<batch>> \o MakeBatches(remaining \ batch, e)

TypeOKPlan ==
    /\ phase \in {"input", "planned", "running"}
    /\ graph.nodes \subseteq PackageId
    /\ st \in [PackageId -> {"idle", "running", "completing", "done"}]
    /\ reported \subseteq PackageId

(***************************************************************************)
(* Installer and state engine: constants and initial state                 *)
(***************************************************************************)
\* number of states the transactions may create on top of the initial one
MaxNewStates == 2

\* largest retention count (InstallConfig::with_retention) that is explored
MaxRetention == 2

\* Installer is Clone (installer.rs:69): two clones share the state manager
Installers == {"A", "B"}

\* the package names a context may mention
PkgNames == {"p"}

StateIds == 0..MaxNewStates

\* Option::None for a state id
NoState == 0 - 1

NoOne == "none"

IdleInst ==
    [pc |-> "idle", kind |-> "none", ctx |-> {}, target |-> NoState,
     new |-> NoState, before |-> NoState, pkgs |-> {}, result |-> "none"]

\* the state after construction: one root state, materialised and current
InitTxnVars ==
    /\ state_retention \in 1..MaxRetention
    /\ db = [s \in {0} |-> [parent |-> NoState, packages |-> {}]]
    /\ dirs = [s \in StateIds |-> IF s = 0 THEN "full" ELSE "none"]
    /\ store = {}
    /\ live = 0
    /\ tmp_link = NoState
    /\ lock = NoOne
    /\ nextId = 1
    /\ inst = [i \in Installers |-> IdleInst]
    /\ journal = <<>>

InitPlanVars ==
    /\ phase = "input"
    /\ sorted \in Perms(PackageId)
    /\ \E e \in [PackageId -> SUBSET PackageId] :
          /\ IsTopoSort(sorted, PackageId, e)
          /\ graph = [nodes |-> PackageId, edges |-> e]
    /\ batches = <<>>
    /\ metadata = <<>>
    /\ st = [p \in PackageId |-> "idle"]
    /\ todo = [p \in PackageId |-> {}]
    /\ newly_ready = [p \in PackageId |-> {}]
    /\ reported = {}
    /\ decOrder = [p \in PackageId |-> <<>>]
    /\ returned = [p \in PackageId |-> {}]

\* the files of the live prefix the guard looks at
Paths == {"bin/a", "etc/b"}

\* DiscrepancyHandling (config/src/guard.rs:29-38)
DiscrepancyHandlings == {"FailFast", "ReportOnly", "AutoHeal", "AutoHealOrFail"}

\* UserFilePolicy (config/src/guard.rs:49-56)
UserFilePolicies == {"Preserve", "Remove", "Backup"}

\* orphaned_file_action: "remove", "preserve", or "backup" (config/src/guard.rs:113)
OrphanedFileActions == {"remove", "preserve", "backup"}

\* the value of a component that the process has not constructed
NotConstructed == "not constructed"

\* the guard while another component runs: no guard exists
IdleGuardVars ==
    /\ gpc = NotConstructed
    /\ files = NotConstructed
    /\ in_store = NotConstructed
    /\ discrepancy_handling = NotConstructed
    /\ user_file_policy = NotConstructed
    /\ orphaned_file_action = NotConstructed
    /\ report = NotConstructed
    /\ heal_result = NotConstructed

\* the largest number of permits of one semaphore
MaxPermits == 2

\* the operation kinds that have a semaphore (manager.rs:19-23)
Kinds == {"download", "decompression", "installation"}

\* the tasks that share one ResourceManager
Tasks == {"t1", "t2"}

\* no try_acquire has run yet
NoTry == [kind |-> "none", before |-> 0, result |-> "none"]

\* ResourceManager::new (manager.rs:34-42): every permit is available
NewManager(l) ==
    /\ limits = l
    /\ available = l
    /\ held = [t \in Tasks |-> [k \in Kinds |-> 0]]
    /\ rpc = [t \in Tasks |-> "idle"]
    /\ last_try = NoTry

\* the resource manager while another component runs: no manager exists
IdleResVars ==
    /\ limits = NotConstructed
    /\ available = NotConstructed
    /\ held = NotConstructed
    /\ rpc = NotConstructed
    /\ last_try = NotConstructed

\* number of write calls that one save needs for the document
DocChunks == 2

\* number of save calls that are explored
MaxSaves == 2

\* the tasks that call save on clones of one IndexCache; task s saves index s
Savers == {1, 2}

\* the index that index.json holds at the start
OldIndex == 0

NoInode == 0

\* Index::to_json as the sequence of chunks written for index d
ToJson(d) == [k \in 1..DocChunks |-> <<d, k>>]

IdleSaver == [pc |-> "idle", fd |-> NoInode, pos |-> 0]

\* results of load that are not an index
NotLoaded == 0 - 1

PathNotFound == 0 - 2

InvalidJson == 0 - 3

\* IndexCache::new (cache.rs:16-20) on a cache directory whose index.json holds
\* a complete, previously saved index
NewCache ==
    cache = [names |-> [n \in {"index.json", "index.tmp"} |->
                           IF n = "index.json" THEN 1 ELSE NoInode],
             inodes |-> (1 :> ToJson(OldIndex)),
             nextInode |-> 2,
             saver |-> [t \in Savers |-> IdleSaver],
             saves |-> 0,
             loaded |-> NotLoaded]

\* urls; the part after the last '/' is the name of the file
Urls == {<<"a", "x">>, <<"b", "x">>, <<"a", "y">>}

\* url.split('/').next_back() (api.rs:86-91)
Filename(url) == url[2]

Filenames == {Filename(u) : u \in Urls}

\* blake3 digests
Hashes == {"h1", "h2"}

\* no file under a name of the working directory
NoFile == "none"

IdleFetch == [pc |-> "idle", url |-> <<"a", "x">>, expected |-> "h1",
              attempts |-> 0, errors |-> 0]

NoResult == [kind |-> "None", url |-> <<"a", "x">>, expected |-> "h1",
             path |-> "x"]

\* BuilderApi::new (api.rs:38-54) on an empty working directory
NewFetch ==
    fetch = [downloads |-> <<>>,
             wfiles |-> [n \in Filenames |-> NoFile],
             fcall |-> IdleFetch,
             fresult |-> NoResult,
             fetches |-> 0]

\* RecoveryStrategy (recovery.rs:14-23)
RecoveryStrategies ==
    {"FailFast", "ContinueWithWarnings", "AutoRecover", "SkipProblematic"}

\* RecoveryStats::default (recovery.rs:58-72); success_rate is the quotient
\* <<numerator, denominator>>, 0.0 at the start
DefaultStats ==
    [total_errors |-> 0, recovered_errors |-> 0, errors_to_warnings |-> 0,
     skipped_operations |-> 0, retry_attempts |-> 0, success_rate |-> <<0, 1>>]

\* a ValidationResult before any step has filled it
EmptyResult == [file_count |-> 0, extracted_size |-> 0, warnings |-> <<>>]

NoReturn == [fn |-> "none", kind |-> "none"]

\* ErrorRecoveryManager::new(strategy).with_max_errors(n) (recovery.rs:77-92)
NewManagerRec(s, n) ==
    [strategy |-> s, max_errors |-> n, error_count |-> 0,
     recovery_stats |-> DefaultStats, custom_handlers |-> <<>>,
     vresult |-> EmptyResult, rret |-> NoReturn, rerr |-> "none", rcalls |-> 0]

\* the builds that run in one process
Builds == {"b1", "b2"}

\* the build systems whose drivers are modelled
Drivers == {"cmake", "meson"}

\* an environment variable that is not set
Unset == "unset"

\* BuildEnvironment::staging_dir of a build
StagingDir(b) == IF b = "b1" THEN "/stage/b1" ELSE "/stage/b2"

\* builds with drivers d that have not started, DESTDIR of the process being e
NewBuilds(d, e) ==
    [driver |-> d,
     bphase |-> [b \in Builds |-> "New"],
     bpc |-> [b \in Builds |-> "none"],
     trail |-> [b \in Builds |-> <<>>],
     ran |-> [b \in Builds |-> <<>>],
     process_env |-> e,
     extra_env |-> [b \in Builds |-> Unset]]

NotExtracted == [done |-> FALSE, entries |-> {}]

\* the components after the resource manager while another component runs:
\* no IndexCache, BuilderApi, ErrorRecoveryManager or build exists
IdleMoreVars ==
    /\ cache = NotConstructed
    /\ fetch = NotConstructed
    /\ rec = NotConstructed
    /\ build = NotConstructed
    /\ tar = NotConstructed
    /\ ver = NotConstructed
    /\ vcfg = NotConstructed
    /\ exec = NotConstructed
    /\ api = NotConstructed

InitPlan ==
    /\ InitPlanVars
    /\ IdleMoreVars
    /\ InitTxnVars
    /\ state_retention = MaxRetention
    /\ IdleGuardVars
    /\ IdleResVars

\* ExecutionPlan::from_sorted_packages
FromSortedPackages ==
    /\ phase = "input"
    /\ phase' = "planned"
    /\ metadata' = InitMetadata(sorted, graph)
    /\ batches' = MakeBatches(Range(sorted), graph.edges)
    /\ UNCHANGED nonPlanVars
    /\ UNCHANGED <<graph, sorted, st, todo, newly_ready, reported, decOrder, returned>>

\* ExecutionPlan::ready_packages (execution.rs:147-158) on the fresh plan
ReadyPackages ==
    /\ phase = "planned"
    /\ phase' = "running"
    /\ reported' = {p \in DOMAIN metadata : metadata[p].in_degree = 0}
    /\ UNCHANGED nonPlanVars
    /\ UNCHANGED <<graph, sorted, batches, metadata, st, todo, newly_ready,
                   decOrder, returned>>

\* the driver starts the operation of a package that was reported ready
Start(p) ==
    /\ phase = "running"
    /\ p \in reported
    /\ st[p] = "idle"
    /\ st' = [st EXCEPT ![p] = "running"]
    /\ UNCHANGED nonPlanVars
    /\ UNCHANGED <<phase, graph, sorted, batches, metadata, todo, newly_ready,
                   reported, decOrder, returned>>

\* the operation of p has finished and its task calls complete_package(p)
\* (execution.rs:162-167)
CompleteCall(p) ==
    /\ phase = "running"
    /\ st[p] = "running"
    /\ st' = [st EXCEPT ![p] = "completing"]
    /\ todo' = [todo EXCEPT ![p] =
                    IF p \in DOMAIN metadata THEN metadata[p].parents ELSE {}]
    /\ newly_ready' = [newly_ready EXCEPT ![p] = {}]
    /\ UNCHANGED nonPlanVars
    /\ UNCHANGED <<phase, graph, sorted, batches, metadata, reported, decOrder,
                   returned>>

\* one iteration of the loop over meta.parents (execution.rs:170-176); the
\* fetch_sub is one atomic step, other tasks interleave between iterations
DecrementParent(p, q) ==
    /\ st[p] = "completing"
    /\ q \in todo[p]
    /\ todo' = [todo EXCEPT ![p] = @ \ {q}]
    /\ IF q \in DOMAIN metadata
       THEN /\ metadata' = [metadata EXCEPT ![q].in_degree = FetchSub(@)]
            /\ decOrder' = [decOrder EXCEPT ![q] = Append(@, p)]
            /\ newly_ready' =
                  IF DecrementInDegree(metadata[q].in_degree) = 0
                  THEN [newly_ready EXCEPT ![p] = @ \cup {q}]
                  ELSE newly_ready
       ELSE UNCHANGED <<metadata, decOrder, newly_ready>>
    /\ UNCHANGED nonPlanVars
    /\ UNCHANGED <<phase, graph, sorted, batches, st, reported, returned>>

\* complete_package returns newly_ready (execution.rs:178); the driver
\* takes the returned packages as ready
CompleteReturn(p) ==
    /\ st[p] = "completing"
    /\ todo[p] = {}
    /\ st' = [st EXCEPT ![p] = "done"]
    /\ returned' = [returned EXCEPT ![p] = newly_ready[p]]
    /\ reported' = reported \cup newly_ready[p]
    /\ UNCHANGED nonPlanVars
    /\ UNCHANGED <<phase, graph, sorted, batches, metadata, todo, newly_ready,
                   decOrder>>

\* ExecutionPlan::is_complete (execution.rs:189-191)
IsComplete == \A p \in DOMAIN metadata : metadata[p].in_degree = 0

NextPlan ==
    \/ FromSortedPackages
    \/ ReadyPackages
    \/ \E p \in PackageId : Start(p)
    \/ \E p \in PackageId : CompleteCall(p)
    \/ \E p, q \in PackageId : DecrementParent(p, q)
    \/ \E p \in PackageId : CompleteReturn(p)

SpecPlan == InitPlan /\ [][NextPlan]_vars

\* the fairness of the claim's hypothesis: the plan is built and queried, every
\* reported package is eventually started, executed and passed to
\* complete_package, and a running complete_package call runs to its return
LiveSpecPlan ==
    /\ SpecPlan
    /\ WF_vars(FromSortedPackages)
    /\ WF_vars(ReadyPackages)
    /\ \A p \in PackageId : WF_vars(Start(p))
    /\ \A p \in PackageId : WF_vars(CompleteCall(p))
    /\ \A p \in PackageId : WF_vars(\E q \in PackageId : DecrementParent(p, q))
    /\ \A p \in PackageId : WF_vars(CompleteReturn(p))

(***************************************************************************)
(* Properties of the execution plan                                        *)
(***************************************************************************)
Planned == UNION Range(batches)

Earlier(k) == UNION {batches[i] : i \in {j \in DOMAIN batches : j < k}}

BatchIndex(p) == CHOOSE k \in DOMAIN batches : p \in batches[k]

RECURSIVE SumLen(_)
SumLen(bs) == IF bs = <<>> THEN 0 ELSE Cardinality(Head(bs)) + SumLen(Tail(bs))

\* every sequence obtained by writing the batches one after the other, each
\* batch in any order
Concatenations ==
    {c \in Perms(Planned) :
        \A i, j \in DOMAIN c : BatchIndex(c[i]) < BatchIndex(c[j]) => i < j}

Called(p) == st[p] \in {"completing", "done"}

\* C3: for an acyclic graph and a topologically sorted list of all its
\* packages, the batches list every package exactly once, every concatenation
\* of the batches (each batch in any order) is a topological sort of the graph,
\* and every dependency of a package lies in a batch of strictly smaller index.
C3_BatchesTopologicalSort ==
    phase # "input" =>
        /\ SumLen(batches) = Cardinality(graph.nodes)
        /\ Planned = graph.nodes
        /\ \A c \in Concatenations : IsTopoSort(c, graph.nodes, graph.edges)
        /\ \A p \in graph.nodes : \A d \in DepsOf(p, graph.edges) :
              BatchIndex(d) < BatchIndex(p)

\* a plan of at least two batches, one of them with two packages, has been built
C3_Witness ==
    /\ phase = "planned"
    /\ Len(batches) >= 2
    /\ \E k \in DOMAIN batches : Cardinality(batches[k]) >= 2

\* C4: batch 0 is exactly the set of packages without a dependency among the
\* planned packages, batch k+1 is exactly the set of not yet batched packages
\* whose dependencies all lie in the batches 0..k, no batch is empty, every
\* sorted package is in exactly one batch, and a single edge b -> a puts b
\* (and the unrelated packages) in the first batch and a alone in the second.
C4_BatchesPartition ==
    phase # "input" =>
        /\ \A k \in DOMAIN batches :
              batches[k] = {p \in Range(sorted) \ Earlier(k) :
                              DepsOf(p, graph.edges) \cap Range(sorted)
                                  \subseteq Earlier(k)}
        /\ \A k \in DOMAIN batches : batches[k] # {}
        /\ \A p \in Range(sorted) :
              Cardinality({k \in DOMAIN batches : p \in batches[k]}) = 1
        /\ \A a, b \in PackageId :
              (/\ a # b
               /\ graph.edges[b] = {a}
               /\ \A f \in PackageId \ {b} : graph.edges[f] = {})
              => batches = <<PackageId \ {a}, {a}>>

\* the plan of a graph whose only edge is b -> a has been built
C4_Witness ==
    /\ phase = "planned"
    /\ Len(batches) = 2
    /\ Cardinality(batches[2]) = 1
    /\ Cardinality(UNION {graph.edges[f] : f \in PackageId}) = 1

\* C5: every complete_package(p) decrements by one the in-degree of each
\* dependent of p it has visited (and of nothing else), its newly_ready holds
\* exactly the dependents whose in-degree its own decrement brought to zero,
\* and under every interleaving a dependent is returned by at most one call,
\* and by exactly one once all its dependencies have returned.
C5_CompleteCountsDown ==
    phase # "input" =>
        /\ \A q \in DOMAIN metadata :
              /\ metadata[q].in_degree
                    = InDegree(q, graph.edges) - Len(decOrder[q])
              /\ Range(decOrder[q])
                    = {p \in DepsOf(q, graph.edges) : Called(p) /\ q \notin todo[p]}
              /\ Cardinality(Range(decOrder[q])) = Len(decOrder[q])
        /\ \A p, q \in PackageId :
              q \in newly_ready[p] <=>
                 /\ Len(decOrder[q]) = InDegree(q, graph.edges)
                 /\ Len(decOrder[q]) > 0
                 /\ decOrder[q][Len(decOrder[q])] = p
        /\ \A q \in PackageId :
              /\ Cardinality({p \in PackageId : q \in returned[p]}) <= 1
              /\ (/\ DepsOf(q, graph.edges) # {}
                  /\ \A d \in DepsOf(q, graph.edges) : st[d] = "done")
                 => Cardinality({p \in PackageId : q \in returned[p]}) = 1

\* two calls of complete_package run at the same time for two dependencies of
\* the same package q, both have decremented q and one of them holds q
C5_Witness ==
    \E p1, p2, q \in PackageId :
        /\ p1 # p2
        /\ st[p1] = "completing" /\ st[p2] = "completing"
        /\ {p1, p2} \subseteq DepsOf(q, graph.edges)
        /\ Len(decOrder[q]) = 2
        /\ q \in newly_ready[p1]

\* C6 as stated: no package of batch N+1 has started before every package of
\* batch N has completed its operation.
C6_BatchBarrier ==
    \A p \in PackageId : \A k \in DOMAIN batches :
        (st[p] # "idle" /\ p \in batches[k] /\ k > 1)
            => \A q \in batches[k - 1] : Called(q)

\* C6 as amended: a package of batch N+1 depends on at least one package of
\* batch N, and it has not started before every package of batch N it
\* depends on has completed its operation.
C6_BatchDependencyBarrier ==
    \A p \in PackageId : \A k \in DOMAIN batches :
        (st[p] # "idle" /\ p \in batches[k] /\ k > 1)
            => /\ batches[k - 1] \cap DepsOf(p, graph.edges) # {}
               /\ \A q \in batches[k - 1] \cap DepsOf(p, graph.edges) : Called(q)

\* a package of the second batch runs while a package of the first batch,
\* on which it does not depend, has not completed
C6_Witness ==
    \E p, q \in PackageId :
        /\ Len(batches) >= 2
        /\ p \in batches[2] /\ q \in batches[1]
        /\ st[p] = "running"
        /\ ~Called(q)

\* C7: a package is reported ready, by ready_packages on the fresh plan or
\* in the newly_ready of a complete_package call, only after complete_package
\* has been called for every one of its dependencies.
C7_ReadyAfterDependencies ==
    \A p \in PackageId :
        (p \in reported \/ \E c \in PackageId : p \in newly_ready[c])
            => \A d \in DepsOf(p, graph.edges) : Called(d)

\* a package with two dependencies has been reported by a complete_package call
C7_Witness ==
    \E p \in PackageId :
        /\ p \in reported
        /\ Cardinality(DepsOf(p, graph.edges)) >= 2
        /\ \E c \in PackageId : p \in returned[c]

AllDone == \A p \in PackageId : st[p] = "done"

\* C8: under the fairness of LiveSpecPlan every package of the plan is
\* eventually reported ready and completed, and once all are completed
\* is_complete() holds (from then on).
C8_WavefrontLive ==
    /\ <>(AllDone /\ reported = PackageId)
    /\ [](AllDone => IsComplete)

\* every package of a plan with a dependency chain is done and is_complete()
C8_Witness ==
    /\ AllDone
    /\ IsComplete
    /\ Len(batches) = NumPkgs

(***************************************************************************)
(* Installer (install/src/installer.rs) over the state engine (section 4.7)*)
(***************************************************************************)
Recorded == DOMAIN db

TxnKinds == {"install", "uninstall", "update"}

\* a call that needs a fresh state id may start only while ids are left
IdsLeft ==
    nextId + Cardinality({j \in Installers :
                 inst[j].pc \in {"created", "locked", "computed", "ensured"}})
        <= MaxNewStates

\* Installer::validate_install_context / validate_uninstall_context
\* (installer.rs:268-301): an empty context is refused
ValidateContext(ctx) == ctx # {}

\* Installer::install up to the creation of the operation (installer.rs:111-120)
InstallCall(i, ctx) ==
    /\ inst[i].pc = "idle"
    /\ IdsLeft
    /\ inst' = [inst EXCEPT ![i] =
                  IF ValidateContext(ctx)
                  THEN [IdleInst EXCEPT !.pc = "created", !.kind = "install",
                                        !.ctx = ctx]
                  ELSE [IdleInst EXCEPT !.result = "NoPackagesSpecified"]]
    /\ UNCHANGED <<journal, state_retention, store, db, dirs, live, tmp_link, lock, nextId>>
    /\ UNCHANGED nonTxnVars

\* Installer::uninstall up to the creation of the operation (installer.rs:136-141)
UninstallCall(i, ctx) ==
    /\ inst[i].pc = "idle"
    /\ IdsLeft
    /\ inst' = [inst EXCEPT ![i] =
                  IF ValidateContext(ctx)
                  THEN [IdleInst EXCEPT !.pc = "created", !.kind = "uninstall",
                                        !.ctx = ctx]
                  ELSE [IdleInst EXCEPT !.result = "NoPackagesSpecified"]]
    /\ UNCHANGED <<journal, state_retention, store, db, dirs, live, tmp_link, lock, nextId>>
    /\ UNCHANGED nonTxnVars

\* Installer::update up to the creation of the operation (installer.rs:157-166):
\* every context is valid, the empty one means update all
UpdateCall(i, ctx) ==
    /\ inst[i].pc = "idle"
    /\ IdsLeft
    /\ inst' = [inst EXCEPT ![i] =
                  [IdleInst EXCEPT !.pc = "created", !.kind = "update", !.ctx = ctx]]
    /\ UNCHANGED <<journal, state_retention, store, db, dirs, live, tmp_link, lock, nextId>>
    /\ UNCHANGED nonTxnVars

\* step 1: take the state lock
TakeLock(i) ==
    /\ inst[i].pc = "created"
    /\ lock = NoOne
    /\ lock' = i
    /\ inst' = [inst EXCEPT ![i].pc = "locked"]
    /\ UNCHANGED <<journal, state_retention, store, db, dirs, live, tmp_link, nextId>>
    /\ UNCHANGED nonTxnVars

\* a target set that adds the named packages whatever the operation is
TargetSetUnion(kind, current, ctx) == current \cup ctx

\* the package set of the new state
TargetSet(kind, current, ctx) ==
    CASE kind = "install"   -> current \cup ctx
      [] kind = "uninstall" -> current \ ctx
      [] OTHER              -> current

\* step 2: compute the target package set from the current state; a current
\* pointer without a record fails the operation before any effect
ComputeTarget(i) ==
    /\ inst[i].pc = "locked"
    /\ IF live \in Recorded
       THEN /\ inst' = [inst EXCEPT ![i].pc = "computed",
                                    ![i].before = live,
                                    ![i].ctx = {},
                                    ![i].pkgs = TargetSet(inst[i].kind,
                                                    db[live].packages, inst[i].ctx)]
            /\ lock' = lock
       ELSE /\ inst' = [inst EXCEPT ![i] = [IdleInst EXCEPT !.result = "error"]]
            /\ lock' = NoOne
    /\ UNCHANGED <<journal, state_retention, store, db, dirs, live, tmp_link, nextId>>
    /\ UNCHANGED nonTxnVars

\* step 3: ensure every store object of the target set is present
EnsureStore(i) ==
    /\ inst[i].pc = "computed"
    /\ inst' = [inst EXCEPT ![i].pc = "ensured"]
    /\ store' = store \cup inst[i].pkgs
    /\ UNCHANGED <<journal, state_retention, db, dirs, live, tmp_link, lock, nextId>>
    /\ UNCHANGED nonTxnVars

\* step 4, begin: a fresh state directory that is being filled with hard links
\* to the store objects of the target set; a missing object is an error (Abort)
MaterializeBegin(i) ==
    /\ inst[i].pc = "ensured"
    /\ nextId <= MaxNewStates
    /\ inst[i].pkgs \subseteq store
    /\ inst' = [inst EXCEPT ![i].pc = "materialising", ![i].new = nextId]
    /\ dirs' = [dirs EXCEPT ![nextId] = "partial"]
    /\ nextId' = nextId + 1
    /\ UNCHANGED <<journal, state_retention, store, db, live, tmp_link, lock>>
    /\ UNCHANGED nonTxnVars

\* step 4, end: the state directory has its expected layout
MaterializeEnd(i) ==
    /\ inst[i].pc = "materialising"
    /\ inst' = [inst EXCEPT ![i].pc = "materialised"]
    /\ dirs' = [dirs EXCEPT ![inst[i].new] = "full"]
    /\ UNCHANGED <<journal, state_retention, store, db, live, tmp_link, lock, nextId>>
    /\ UNCHANGED nonTxnVars

\* the history after the record of state id is persisted by operation kind
Journalled(j, id, kind, parent, pkgs) ==
    IF DOMAIN j = {} THEN j
    ELSE j @@ (id :> [op |-> kind, parent |-> parent, packages |-> pkgs])

\* a state record persisted as a root state
PersistStateNoParent(i) ==
    /\ inst[i].pc = "materialised"
    /\ inst' = [inst EXCEPT ![i].pc = "persisted"]
    /\ db' = db @@ (inst[i].new :> [parent |-> NoState, packages |-> inst[i].pkgs])
    /\ journal' = Journalled(journal, inst[i].new, inst[i].kind, NoState, inst[i].pkgs)
    /\ UNCHANGED <<state_retention, store, dirs, live, tmp_link, lock, nextId>>
    /\ UNCHANGED nonTxnVars

\* step 5: persist the new state record, parent = current
PersistState(i) ==
    /\ inst[i].pc = "materialised"
    /\ inst' = [inst EXCEPT ![i].pc = "persisted"]
    /\ db' = db @@ (inst[i].new :> [parent |-> live, packages |-> inst[i].pkgs])
    /\ journal' = Journalled(journal, inst[i].new, inst[i].kind, live, inst[i].pkgs)
    /\ UNCHANGED <<state_retention, store, dirs, live, tmp_link, lock, nextId>>
    /\ UNCHANGED nonTxnVars

\* an activation that removes the live symlink before it creates the new one
FlipTmpUnlink(i) ==
    /\ inst[i].pc = "persisted"
    /\ inst' = [inst EXCEPT ![i].pc = "flip_tmp"]
    /\ tmp_link' = inst[i].new
    /\ live' = NoState
    /\ UNCHANGED <<journal, state_retention, store, db, dirs, lock, nextId>>
    /\ UNCHANGED nonTxnVars

\* step 6, first rename: the temporary symlink points to the new state
FlipTmp(i) ==
    /\ inst[i].pc = "persisted"
    /\ inst' = [inst EXCEPT ![i].pc = "flip_tmp"]
    /\ tmp_link' = inst[i].new
    /\ UNCHANGED <<journal, state_retention, store, db, dirs, live, lock, nextId>>
    /\ UNCHANGED nonTxnVars

\* step 6, second rename: the temporary symlink replaces the live symlink
FlipLive(i) ==
    /\ inst[i].pc = "flip_tmp"
    /\ inst' = [inst EXCEPT ![i].pc = "flipped"]
    /\ live' = tmp_link
    /\ tmp_link' = NoState
    /\ UNCHANGED <<journal, state_retention, store, db, dirs, lock, nextId>>
    /\ UNCHANGED nonTxnVars

\* step 7: release the state lock
ReleaseLock(i) ==
    /\ inst[i].pc = "flipped"
    /\ inst' = [inst EXCEPT ![i].pc = "unlocked"]
    /\ lock' = NoOne
    /\ UNCHANGED <<journal, state_retention, store, db, dirs, live, tmp_link, nextId>>
    /\ UNCHANGED nonTxnVars

\* step 8: the verification guard has run; operation.execute returns
\* (installer.rs:123, 144, 169)
Guard(i) ==
    /\ inst[i].pc = "unlocked"
    /\ inst' = [inst EXCEPT ![i].pc = "guarded"]
    /\ UNCHANGED <<journal, state_retention, store, db, dirs, live, tmp_link, lock, nextId>>
    /\ UNCHANGED nonTxnVars

\* the n most recent of the recorded states
MostRecent(S, n) == {s \in S : Cardinality({t \in S : t > s}) < n}

\* Installer::cleanup_old_states, first call (installer.rs:260-262): retention
\* GC destroys the states older than the state_retention most recent ones
CleanupOldStates(i) ==
    /\ inst[i].pc = "guarded"
    /\ inst' = [inst EXCEPT ![i].pc = "gc_store"]
    /\ LET keep == MostRecent(Recorded, state_retention)
       IN  /\ db' = [s \in keep |-> db[s]]
           /\ dirs' = [s \in StateIds |->
                         IF s \in Recorded \ keep THEN "none" ELSE dirs[s]]
    /\ UNCHANGED <<journal, state_retention, store, live, tmp_link, lock, nextId>>
    /\ UNCHANGED nonTxnVars

\* a cleanup that collects the store right after the guard, skips retention
\* GC and returns
GarbageCollectEarly(i) ==
    /\ inst[i].pc = "guarded"
    /\ inst' = [inst EXCEPT ![i] = [IdleInst EXCEPT !.result = "ok"]]
    /\ store' = store \cap UNION {db[s].packages : s \in DOMAIN db}
    /\ UNCHANGED <<journal, state_retention, db, dirs, live, tmp_link, lock, nextId>>
    /\ UNCHANGED nonTxnVars

\* the store objects referenced by the recorded states of database d
Referenced(d) == UNION {d[s].packages : s \in DOMAIN d}

\* Installer::cleanup_old_states, second call (installer.rs:263): store garbage
\* collection unlinks every object that no recorded state references; then
\* install / uninstall / update returns Ok (installer.rs:128, 149, 174)
GarbageCollect(i) ==
    /\ inst[i].pc = "gc_store"
    /\ inst' = [inst EXCEPT ![i] = [IdleInst EXCEPT !.result = "ok"]]
    /\ store' = store \cap Referenced(db)
    /\ UNCHANGED <<journal, state_retention, db, dirs, live, tmp_link, lock, nextId>>
    /\ UNCHANGED nonTxnVars

\* StateManager::cleanup_old_states returns an error: the `?` of
\* installer.rs:262 and of installer.rs:126, 147, 172 makes the operation
\* return that error, after operation.execute has succeeded
CleanupOldStatesFails(i) ==
    /\ inst[i].pc = "guarded"
    /\ inst' = [inst EXCEPT ![i] = [IdleInst EXCEPT !.result = "error"]]
    /\ UNCHANGED <<journal, state_retention, store, db, dirs, live, tmp_link, lock, nextId>>
    /\ UNCHANGED nonTxnVars

\* PackageStore::garbage_collect returns an error: the `?` of installer.rs:263
\* makes the operation return that error, after retention GC has run
GarbageCollectFails(i) ==
    /\ inst[i].pc = "gc_store"
    /\ inst' = [inst EXCEPT ![i] = [IdleInst EXCEPT !.result = "error"]]
    /\ UNCHANGED <<journal, state_retention, store, db, dirs, live, tmp_link, lock, nextId>>
    /\ UNCHANGED nonTxnVars

\* Installer::rollback, the existence check (installer.rs:182-189)
RollbackCall(i, t) ==
    /\ inst[i].pc = "idle"
    /\ inst' = [inst EXCEPT ![i] =
                  IF t \in Recorded
                  THEN [IdleInst EXCEPT !.pc = "rb_checked", !.kind = "rollback",
                                        !.target = t]
                  ELSE [IdleInst EXCEPT !.result = "StateNotFound"]]
    /\ UNCHANGED <<journal, state_retention, store, db, dirs, live, tmp_link, lock, nextId>>
    /\ UNCHANGED nonTxnVars

\* AtomicInstaller::new and the start of AtomicInstaller::rollback
\* (installer.rs:192-196): the rollback takes the state lock
RollbackLock(i) ==
    /\ inst[i].pc = "rb_checked"
    /\ lock = NoOne
    /\ lock' = i
    /\ inst' = [inst EXCEPT ![i].pc = "rb_locked"]
    /\ UNCHANGED <<journal, state_retention, store, db, dirs, live, tmp_link, nextId>>
    /\ UNCHANGED nonTxnVars

\* rollback, first rename of step 6 with the target state
RollbackFlipTmp(i) ==
    /\ inst[i].pc = "rb_locked"
    /\ inst' = [inst EXCEPT ![i].pc = "rb_tmp"]
    /\ tmp_link' = inst[i].target
    /\ UNCHANGED <<journal, state_retention, store, db, dirs, live, lock, nextId>>
    /\ UNCHANGED nonTxnVars

\* rollback, second rename of step 6
RollbackFlipLive(i) ==
    /\ inst[i].pc = "rb_tmp"
    /\ inst' = [inst EXCEPT ![i].pc = "rb_flipped"]
    /\ live' = tmp_link
    /\ tmp_link' = NoState
    /\ UNCHANGED <<journal, state_retention, store, db, dirs, lock, nextId>>
    /\ UNCHANGED nonTxnVars

\* a rollback that triggers retention GC before it returns, as install does
RollbackReturnCleanup(i) ==
    /\ inst[i].pc = "rb_flipped"
    /\ inst' = [inst EXCEPT ![i] = [IdleInst EXCEPT !.result = "ok"]]
    /\ lock' = NoOne
    /\ LET keep == MostRecent(Recorded, state_retention)
       IN  /\ db' = [s \in keep |-> db[s]]
           /\ dirs' = [s \in StateIds |->
                         IF s \in Recorded \ keep THEN "none" ELSE dirs[s]]
    /\ UNCHANGED <<journal, state_retention, store, live, tmp_link, nextId>>
    /\ UNCHANGED nonTxnVars

\* rollback releases the lock and returns Ok (installer.rs:198)
RollbackReturn(i) ==
    /\ inst[i].pc = "rb_flipped"
    /\ inst' = [inst EXCEPT ![i] = [IdleInst EXCEPT !.result = "ok"]]
    /\ lock' = NoOne
    /\ UNCHANGED <<journal, state_retention, store, db, dirs, live, tmp_link, nextId>>
    /\ UNCHANGED nonTxnVars

\* positions of a transaction between taking the lock and the first rename
BeforeFlip == {"locked", "computed", "ensured", "materialising", "materialised",
               "persisted"}

\* cancellation or an error before the pointer flip: the transaction aborts,
\* its state directory and record are discarded and the lock is released
Abort(i) ==
    /\ inst[i].pc \in BeforeFlip
    /\ inst' = [inst EXCEPT ![i] = [IdleInst EXCEPT !.result = "aborted"]]
    /\ db' = [s \in Recorded \ {inst[i].new} |-> db[s]]
    /\ dirs' = [s \in StateIds |-> IF s = inst[i].new THEN "none" ELSE dirs[s]]
    /\ lock' = NoOne
    /\ UNCHANGED <<journal, state_retention, store, live, tmp_link, nextId>>
    /\ UNCHANGED nonTxnVars

\* the process is killed: every call in flight is gone, the file lock is
\* released, the files and the database stay as they are
Crash ==
    /\ \E i \in Installers : inst[i].pc # "idle"
    /\ inst' = [i \in Installers |->
                  IF inst[i].pc = "idle" THEN inst[i]
                  ELSE [IdleInst EXCEPT !.result = "crashed"]]
    /\ lock' = NoOne
    /\ UNCHANGED <<journal, state_retention, store, db, dirs, live, tmp_link, nextId>>
    /\ UNCHANGED nonTxnVars

\* the plan variables while another component runs: no plan exists
IdlePlanVars ==
    /\ phase = NotConstructed
    /\ sorted = NotConstructed
    /\ graph = NotConstructed
    /\ batches = NotConstructed
    /\ metadata = NotConstructed
    /\ st = NotConstructed
    /\ todo = NotConstructed
    /\ newly_ready = NotConstructed
    /\ reported = NotConstructed
    /\ decOrder = NotConstructed
    /\ returned = NotConstructed

InitTxn ==
    /\ IdlePlanVars /\ InitTxnVars /\ IdleGuardVars /\ IdleResVars
    /\ IdleMoreVars

NextTxn ==
    \/ \E i \in Installers, ctx \in SUBSET PkgNames : InstallCall(i, ctx)
    \/ \E i \in Installers, ctx \in SUBSET PkgNames : UninstallCall(i, ctx)
    \/ \E i \in Installers, ctx \in SUBSET PkgNames : UpdateCall(i, ctx)
    \/ \E i \in Installers : TakeLock(i)
    \/ \E i \in Installers : ComputeTarget(i)
    \/ \E i \in Installers : EnsureStore(i)
    \/ \E i \in Installers : MaterializeBegin(i)
    \/ \E i \in Installers : MaterializeEnd(i)
    \/ \E i \in Installers : PersistState(i)
    \/ \E i \in Installers : FlipTmp(i)
    \/ \E i \in Installers : FlipLive(i)
    \/ \E i \in Installers : ReleaseLock(i)
    \/ \E i \in Installers : Guard(i)
    \/ \E i \in Installers : CleanupOldStates(i)
    \/ \E i \in Installers : GarbageCollect(i)
    \/ \E i \in Installers : CleanupOldStatesFails(i)
    \/ \E i \in Installers : GarbageCollectFails(i)
    \/ \E i \in Installers, t \in StateIds : RollbackCall(i, t)
    \/ \E i \in Installers : RollbackLock(i)
    \/ \E i \in Installers : RollbackFlipTmp(i)
    \/ \E i \in Installers : RollbackFlipLive(i)
    \/ \E i \in Installers : RollbackReturn(i)
    \/ \E i \in Installers : Abort(i)
    \/ Crash

SpecTxn == InitTxn /\ [][NextTxn]_vars

\* one Installer used sequentially, on a root state with any package set, with
\* the history of the persisted records
Solo == "A"

InitSeq ==
    /\ IdlePlanVars
    /\ IdleMoreVars
    /\ IdleGuardVars
    /\ IdleResVars
    /\ state_retention \in 1..MaxRetention
    /\ \E pk \in SUBSET PkgNames :
          /\ db = [s \in {0} |-> [parent |-> NoState, packages |-> pk]]
          /\ store = pk
    /\ dirs = [s \in StateIds |-> IF s = 0 THEN "full" ELSE "none"]
    /\ live = 0
    /\ tmp_link = NoState
    /\ lock = NoOne
    /\ nextId = 1
    /\ inst = [i \in Installers |-> IdleInst]
    /\ journal = [s \in {0} |-> [op |-> "none", parent |-> NoState,
                                  packages |-> db[0].packages]]

NextSeq ==
    \/ \E ctx \in SUBSET PkgNames : InstallCall(Solo, ctx)
    \/ \E ctx \in SUBSET PkgNames : UninstallCall(Solo, ctx)
    \/ \E ctx \in SUBSET PkgNames : UpdateCall(Solo, ctx)
    \/ TakeLock(Solo)
    \/ ComputeTarget(Solo)
    \/ EnsureStore(Solo)
    \/ MaterializeBegin(Solo)
    \/ MaterializeEnd(Solo)
    \/ PersistState(Solo)
    \/ FlipTmp(Solo)
    \/ FlipLive(Solo)
    \/ ReleaseLock(Solo)
    \/ Guard(Solo)
    \/ CleanupOldStates(Solo)
    \/ GarbageCollect(Solo)

SpecSeq == InitSeq /\ [][NextSeq]_vars

TypeOKTxn ==
    /\ Recorded \subseteq StateIds
    /\ live \in StateIds \cup {NoState}
    /\ lock \in Installers \cup {NoOne}
    /\ nextId \in 1..(MaxNewStates + 1)

(***************************************************************************)
(* Properties of the transactions                                          *)
(***************************************************************************)
\* installer i is inside install / uninstall / update, steps 1 to 7
InTransaction(i) ==
    inst[i].pc \in BeforeFlip \cup {"created", "flip_tmp", "flipped"}

\* installer i holds the state lock in a transaction or a rollback
InLockedSection(i) ==
    inst[i].pc \in BeforeFlip \cup {"flip_tmp", "flipped", "rb_locked", "rb_tmp",
                                    "rb_flipped"}

\* installer i is inside Installer::cleanup_old_states: retention GC has run,
\* store garbage collection is running
InGc(i) == inst[i].pc = "gc_store"

\* C1: whatever step a transaction of install / uninstall / update takes, and
\* wherever it is cancelled or the process is killed, the live symlink always
\* has a target that is not a partially materialised directory, and the step
\* either leaves the current state as it was (pointer, directory, record) or
\* makes the transaction's own new state current, fully materialised and
\* recorded with the previous current state as its parent.
C1_AtomicSwap ==
    [][/\ live' # NoState
       /\ dirs'[live'] # "partial"
       /\ \A i \in Installers :
             (InTransaction(i) /\ inst'[i] # inst[i]) =>
                \/ /\ live' = live
                   /\ dirs'[live] = dirs[live]
                   /\ live \in Recorded => (live \in DOMAIN db' /\ db'[live] = db[live])
                \/ /\ live' = inst[i].new
                   /\ inst'[i].pc = "flipped"
                   /\ dirs'[live'] = "full"
                   /\ live' \in DOMAIN db'
                   /\ db'[live'].parent = live]_vars

\* the process was killed between the two renames of an activation: the new
\* state is recorded and materialised, the temporary symlink names it and the
\* current state is still its parent
C1_Witness ==
    /\ tmp_link # NoState
    /\ tmp_link # live
    /\ tmp_link \in Recorded
    /\ db[tmp_link].parent = live
    /\ dirs[tmp_link] = "full"
    /\ \A i \in Installers : inst[i].pc = "idle"
    /\ \E i \in Installers : inst[i].result = "crashed"

\* C2: the flip of every install / uninstall / update makes current a state
\* whose parent is the state that was current until then (the one the
\* operation started from), and a state record appears only by step 5 of a
\* transaction, one record per transaction, with parent = current.
C2_ParentIsPrevious ==
    [][/\ \A i \in Installers :
             (inst[i].pc = "flip_tmp" /\ inst'[i].pc = "flipped") =>
                /\ live' = inst[i].new
                /\ live' # live
                /\ live' \in DOMAIN db'
                /\ db'[live'].parent = live
                /\ live = inst[i].before
       /\ (DOMAIN db' \ Recorded) # {} =>
             \E i \in Installers :
                /\ inst[i].pc = "materialised"
                /\ inst'[i].pc = "persisted"
                /\ DOMAIN db' \ Recorded = {inst[i].new}
                /\ db'[inst[i].new].parent = live]_vars

\* a second transaction has flipped: the current state is its new state and
\* the parent of it is the state created by an earlier transaction
C2_Witness ==
    \E i \in Installers :
        /\ inst[i].pc = "flipped"
        /\ live = inst[i].new
        /\ db[live].parent = inst[i].before
        /\ inst[i].before # 0

\* C9 as stated: the locked sections of two transactions or rollbacks never
\* overlap, and no Installer executes retention GC or store garbage
\* collection while an install / uninstall / update holds the state lock.
C9_LockSerialises ==
    /\ \A i, j \in Installers :
          (i # j /\ InLockedSection(i)) => ~InLockedSection(j)
    /\ \A i, j \in Installers :
          InGc(i) =>
              ~(InLockedSection(j) /\ inst[j].kind \in TxnKinds)

\* C10 as stated: the current pointer references one state, and that state
\* exists: it has its record and its materialised directory.
C10_CurrentExists ==
    /\ live \in Recorded
    /\ dirs[live] = "full"

\* C11 as stated: state ids are unique (one record and one directory per id,
\* every new id is fresh), and the parent of every recorded state, if set, is
\* a recorded state, also after retention GC has destroyed old states.
C11_ParentsExist ==
    /\ \A s \in Recorded : s < nextId
    /\ \A s \in Recorded :
          db[s].parent # NoState => db[s].parent \in Recorded

\* C12 as stated: when retention GC followed by store garbage collection has
\* run, the store holds the objects of every retained state, and the
\* collection has unlinked only objects that no retained state references.
C12_StoreKeepsReferenced ==
    [][\A i \in Installers :
          (inst[i].pc = "gc_store" /\ inst'[i].pc = "idle"
                                   /\ inst'[i].result = "ok") =>
              /\ \A s \in DOMAIN db' : db'[s].packages \subseteq store'
              /\ (store \ store') \cap Referenced(db') = {}]_vars

\* the results of install / uninstall / update that are errors of another
\* kind than a guard error
NonGuardErrors == {"NoPackagesSpecified", "error", "aborted"}

\* C13 as stated: when install / uninstall / update returns an error that is
\* not a guard error, the call has had no effect: the state it may have
\* created is neither recorded nor current, and the current state and the
\* recorded states are those the call started from.
C13_ErrorHasNoEffect ==
    [][\A i \in Installers :
          (/\ inst'[i] # inst[i]
           /\ inst'[i].pc = "idle"
           /\ inst'[i].result \in NonGuardErrors
           /\ inst[i].new # NoState) =>
              /\ inst[i].new \notin DOMAIN db'
              /\ live' # inst[i].new
              /\ live' = inst[i].before]_vars

\* the positions of install / uninstall / update in the order of the steps:
\* operation created, 1 lock, 2 compute, 3 ensure store, 4 materialise (begin,
\* end), 5 persist, 6 flip (two renames), 7 release, 8 guard, 9 retention GC
StepOrder ==
    <<"created", "locked", "computed", "ensured", "materialising", "materialised",
      "persisted", "flip_tmp", "flipped", "unlocked", "guarded", "gc_store">>

\* C14: every step of an install / uninstall / update is the next one of the
\* order lock, compute, ensure store, materialise, persist, flip, release,
\* guard, retention GC, or it ends the call; the call returns Ok only after
\* retention GC, which is its last step; the steps up to the flip run while
\* the caller holds the lock, the record is persisted for a fully
\* materialised directory, the flip makes the persisted state current, and
\* the guard and retention GC run after the flip and the release.
C14_StepOrder ==
    [][\A i \in Installers :
          (inst[i].kind \in TxnKinds /\ inst'[i].pc # inst[i].pc) =>
              /\ \/ \E k \in 1..(Len(StepOrder) - 1) :
                       /\ inst[i].pc = StepOrder[k]
                       /\ inst'[i].pc = StepOrder[k + 1]
                 \/ inst'[i].pc = "idle" /\ inst'[i].result # "ok"
                 \/ /\ inst[i].pc = "gc_store"
                    /\ inst'[i].pc = "idle"
                    /\ inst'[i].result = "ok"
              /\ inst'[i].pc = "locked" => (lock # i /\ lock' = i)
              /\ inst'[i].pc \in BeforeFlip \cup {"flip_tmp", "flipped"} => lock' = i
              /\ inst'[i].pc = "persisted" =>
                    /\ dirs[inst[i].new] = "full"
                    /\ DOMAIN db' \ Recorded = {inst[i].new}
              /\ inst'[i].pc = "flipped" =>
                    (inst[i].new \in Recorded /\ live' = inst[i].new)
              /\ inst'[i].pc = "unlocked" => (lock = i /\ lock' = NoOne)
              /\ inst'[i].pc \in {"guarded", "gc_store"} => lock # i
              /\ inst'[i].pc = "gc_store" => DOMAIN db' \subseteq Recorded]_vars

\* an uninstall has run all its steps up to retention GC and is about to
\* return Ok
C14_Witness ==
    \E i \in Installers :
        /\ inst[i].pc = "gc_store"
        /\ inst[i].kind = "uninstall"
        /\ live = inst[i].new

\* C15: every step of a rollback whose target exists leaves the recorded
\* states, their directories and the id counter as they are (no state is
\* created, none destroyed); the current pointer changes only in the one flip
\* step, which makes the target current with its fully materialised
\* directory as the live prefix; Ok is returned only after that flip.
C15_RollbackFlipsToTarget ==
    [][\A i \in Installers :
          (/\ inst'[i] # inst[i]
           /\ inst[i].kind = "rollback" \/ inst'[i].kind = "rollback") =>
              /\ db' = db
              /\ dirs' = dirs
              /\ nextId' = nextId
              /\ IF inst[i].pc = "rb_tmp" /\ inst'[i].pc = "rb_flipped"
                 THEN /\ live' = inst[i].target
                      /\ inst[i].target \in Recorded =>
                            (live' \in DOMAIN db' /\ dirs'[live'] = "full")
                 ELSE live' = live
              /\ (inst'[i].pc = "idle" /\ inst'[i].result = "ok") =>
                    (inst[i].pc = "rb_flipped" /\ live = inst[i].target)]_vars

\* a rollback has flipped to a recorded target that is the parent of a newer
\* recorded state
C15_Witness ==
    \E i \in Installers :
        /\ inst[i].pc = "rb_flipped"
        /\ live = inst[i].target
        /\ live \in Recorded
        /\ dirs[live] = "full"
        /\ \E s \in Recorded : db[s].parent = live

\* installer i is inside Installer::rollback between the existence check of
\* the target and the flip
BetweenCheckAndFlip(i) == inst[i].pc \in {"rb_checked", "rb_locked", "rb_tmp"}

\* C16 as stated: rollback of a target that does not exist returns
\* StateNotFound and changes nothing, and no retention GC removes the target
\* of a rollback between the existence check and the flip.
C16_RollbackTargetChecked ==
    [][/\ \A i \in Installers :
             (inst[i].pc = "idle" /\ inst'[i].result = "StateNotFound"
                                  /\ inst'[i] # inst[i]) =>
                 /\ inst'[i].pc = "idle"
                 /\ live' = live
                 /\ db' = db
                 /\ dirs' = dirs
       /\ \A i, j \in Installers :
             (/\ BetweenCheckAndFlip(i)
              /\ inst[j].pc = "guarded"
              /\ inst'[j].pc = "gc_store") =>
                 inst[i].target \in DOMAIN db']_vars

\* Installer::list_states (installer.rs:205-236): one StateInfo per record the
\* state manager lists
ListStates(d) == DOMAIN d

\* Installer::current_state (installer.rs:243-256): the listed state with the
\* current id; NoState stands for the StateNotFound error
CurrentState(d, l) == IF l \in ListStates(d) THEN l ELSE NoState

\* C17 as stated: when the process is killed after the record of the new
\* state is persisted and before the flip, list_states afterwards does not
\* include that state and current_state is the state current before the
\* operation.
C17_CrashHidesInProgress ==
    [][\A i \in Installers :
          (/\ inst[i].pc = "persisted"
           /\ inst'[i].pc = "idle"
           /\ inst'[i].result = "crashed") =>
              /\ inst[i].new \notin ListStates(db')
              /\ CurrentState(db', live') = inst[i].before]_vars

\* state s was created by an uninstall that ran immediately after the install
\* that created its parent
InstallThenUninstall(s) ==
    /\ journal[s].op = "uninstall"
    /\ journal[s].parent \in DOMAIN journal
    /\ journal[journal[s].parent].op = "install"
    /\ journal[journal[s].parent].parent \in DOMAIN journal

\* the state from which the install before the uninstall of s started
BeforeInstall(s) == journal[journal[s].parent].parent

DiscrepancyKinds == {"missing", "extra", "corrupted", "wrong_symlink", "orphaned"}

Conditions == {"ok", "absent"} \cup DiscrepancyKinds

\* VerificationConfig::should_auto_heal (config/src/guard.rs:291-296)
ShouldAutoHeal(handling) == handling \in {"AutoHeal", "AutoHealOrFail"}

\* verify: one Discrepancy per path whose condition is a discrepancy kind
Verify(f) == {[kind |-> f[p], path |-> p] : p \in {q \in Paths : f[q] \in DiscrepancyKinds}}

\* the healing action for one path: missing -> re-link from the store,
\* corrupted -> overwrite from the store, wrong symlink target -> retarget,
\* extra -> per UserFilePolicy, orphaned -> per OrphanedFileAction
HealFile(cond, has, ufp, ofa) ==
    CASE cond \in {"missing", "corrupted"} -> IF has THEN "ok" ELSE cond
      [] cond = "wrong_symlink"           -> "ok"
      [] cond = "extra"                   -> IF ufp = "Preserve" THEN cond ELSE "absent"
      [] cond = "orphaned"                -> IF ofa = "preserve" THEN cond ELSE "absent"
      [] OTHER                            -> cond

\* a repair is impossible when the store lacks the object to repair from
Repairable(cond, has) == cond \in {"missing", "corrupted"} => has

InitGuard ==
    /\ IdlePlanVars
    /\ IdleMoreVars
    /\ InitTxnVars
    /\ state_retention = MaxRetention
    /\ IdleResVars
    /\ gpc = "start"
    /\ files \in [Paths -> Conditions]
    /\ in_store \in [Paths -> BOOLEAN]
    /\ discrepancy_handling \in DiscrepancyHandlings
    /\ user_file_policy \in UserFilePolicies
    /\ orphaned_file_action \in OrphanedFileActions
    /\ report = {}
    /\ heal_result = "none"

\* a guard pass: verify(s), the first one or the one right after heal
VerifyState ==
    /\ gpc \in {"start", "healed"}
    /\ gpc' = IF gpc = "start" THEN "verified" ELSE "reverified"
    /\ report' = Verify(files)
    /\ UNCHANGED <<files, in_store, discrepancy_handling, user_file_policy,
                   orphaned_file_action, heal_result>>
    /\ UNCHANGED nonGuardVars

\* heal(s): every reported path gets its healing action; heal returns OK
\* unless a repair was impossible
Heal ==
    /\ gpc = "verified"
    /\ ShouldAutoHeal(discrepancy_handling)
    /\ gpc' = "healed"
    /\ files' = [p \in Paths |-> HealFile(files[p], in_store[p], user_file_policy,
                                          orphaned_file_action)]
    /\ heal_result' = IF \A d \in report : Repairable(d.kind, in_store[d.path])
                      THEN "ok" ELSE "failed"
    /\ UNCHANGED <<in_store, discrepancy_handling, user_file_policy,
                   orphaned_file_action, report>>
    /\ UNCHANGED nonGuardVars

NextGuard ==
    \/ VerifyState
    \/ Heal

SpecGuard == InitGuard /\ [][NextGuard]_vars

\* C19 as stated: once heal has returned OK, the verify that follows it
\* reports no discrepancy.
C19_HealIdempotent ==
    (gpc = "reverified" /\ heal_result = "ok") => report = {}

(***************************************************************************)
(* ResourceManager (resources/src/manager.rs)                              *)
(***************************************************************************)
\* every permit method uses the first semaphore
SemaphoreOfDownload(kind) == "download"

\* the semaphore behind the permit methods of one kind: acquire_download_permit
\* and try_acquire_download_permit use download_semaphore, and so on
\* (manager.rs:55-102)
SemaphoreOf(kind) == kind

\* the permits of one kind that the tasks own
Held(k) == held["t1"][k] + held["t2"][k]

\* ResourceManager::get_resource_availability (manager.rs:115-121)
GetResourceAvailability == [k \in Kinds |-> available[k]]

InitRes ==
    /\ IdlePlanVars
    /\ IdleMoreVars
    /\ InitTxnVars
    /\ state_retention = MaxRetention
    /\ IdleGuardVars
    /\ \E l \in [Kinds -> 0..MaxPermits] : NewManager(l)

\* acquire_*_permit is called (manager.rs:55-75): the task awaits a permit
AcquireCall(t, k) ==
    /\ rpc[t] = "idle"
    /\ rpc' = [rpc EXCEPT ![t] = k]
    /\ UNCHANGED <<limits, available, held, last_try>>
    /\ UNCHANGED nonResVars

\* the awaited acquire completes once the semaphore has a free permit
AcquireGrant(t) ==
    /\ rpc[t] \in Kinds
    /\ available[SemaphoreOf(rpc[t])] > 0
    /\ available' = [available EXCEPT ![SemaphoreOf(rpc[t])] = @ - 1]
    /\ held' = [held EXCEPT ![t][rpc[t]] = @ + 1]
    /\ rpc' = [rpc EXCEPT ![t] = "idle"]
    /\ UNCHANGED <<limits, last_try>>
    /\ UNCHANGED nonResVars

\* the future of an acquire is dropped before it got a permit
AcquireCancel(t) ==
    /\ rpc[t] \in Kinds
    /\ rpc' = [rpc EXCEPT ![t] = "idle"]
    /\ UNCHANGED <<limits, available, held, last_try>>
    /\ UNCHANGED nonResVars

\* try_acquire_*_permit (manager.rs:82-102): Some(permit) when a permit is
\* free, None otherwise, in one step
TryAcquire(t, k) ==
    /\ rpc[t] = "idle"
    /\ LET sem == SemaphoreOf(k)
           free == available[sem] > 0
       IN  /\ available' = IF free THEN [available EXCEPT ![sem] = @ - 1]
                           ELSE available
           /\ held' = IF free THEN [held EXCEPT ![t][k] = @ + 1] ELSE held
           /\ last_try' = [kind |-> k, before |-> available[sem],
                           result |-> IF free THEN "Some" ELSE "None"]
    /\ UNCHANGED <<limits, rpc>>
    /\ UNCHANGED nonResVars

\* an OwnedSemaphorePermit is dropped: the permit returns to its semaphore
DropPermit(t, k) ==
    /\ held[t][k] > 0
    /\ held' = [held EXCEPT ![t][k] = @ - 1]
    /\ available' = [available EXCEPT ![SemaphoreOf(k)] = @ + 1]
    /\ UNCHANGED <<limits, rpc, last_try>>
    /\ UNCHANGED nonResVars

NextRes ==
    \/ \E t \in Tasks, k \in Kinds : AcquireCall(t, k)
    \/ \E t \in Tasks : AcquireGrant(t)
    \/ \E t \in Tasks : AcquireCancel(t)
    \/ \E t \in Tasks, k \in Kinds : TryAcquire(t, k)
    \/ \E t \in Tasks, k \in Kinds : DropPermit(t, k)

SpecRes == InitRes /\ [][NextRes]_vars

\* C20: for each of the three semaphores, the permits held never exceed the
\* limit, the available permits it reports are the limit minus the permits
\* held, and a try_acquire completes in its one step with Some or None, None
\* exactly when no permit was free (it never waits).
C20_SemaphoreLimits ==
    /\ \A k \in Kinds :
          /\ Held(k) <= limits[k]
          /\ GetResourceAvailability[k] = limits[k] - Held(k)
          /\ GetResourceAvailability[k] >= 0
    /\ last_try.kind \in Kinds =>
          /\ (last_try.result = "None") <=> (last_try.before = 0)
          /\ last_try.result \in {"Some", "None"}

\* every installation permit is held, one task awaits another one and a
\* try_acquire_installation_permit has just returned None
C20_Witness ==
    /\ limits["installation"] > 0
    /\ Held("installation") = limits["installation"]
    /\ GetResourceAvailability["installation"] = 0
    /\ \E t \in Tasks : rpc[t] = "installation"
    /\ last_try = [kind |-> "installation", before |-> 0, result |-> "None"]

(***************************************************************************)
(* IndexCache (index/src/cache.rs)                                         *)
(***************************************************************************)
\* the components other than the cache, idle
IdleButCache ==
    /\ IdlePlanVars
    /\ InitTxnVars
    /\ state_retention = MaxRetention
    /\ IdleGuardVars
    /\ IdleResVars

\* an IndexCache on its cache directory; nothing else is constructed
InitCache ==
    /\ IdleButCache
    /\ NewCache
    /\ fetch = NotConstructed
    /\ rec = NotConstructed
    /\ build = NotConstructed
    /\ tar = NotConstructed
    /\ ver = NotConstructed
    /\ vcfg = NotConstructed
    /\ exec = NotConstructed
    /\ api = NotConstructed

\* the content of inode f after a write of chunk c at offset pos
WriteAt(content, pos, c) ==
    [k \in 1..(IF pos + 1 > Len(content) THEN pos + 1 ELSE Len(content)) |->
        IF k = pos + 1 THEN c
        ELSE IF k <= Len(content) THEN content[k] ELSE <<NoInode, k>>]

\* save, fs::write (cache.rs:66-67), the open: index.tmp is created, or
\* truncated when it exists
SaveOpen(t) ==
    /\ cache.saver[t].pc = "idle"
    /\ cache.saves < MaxSaves
    /\ cache' =
        IF cache.names["index.tmp"] = NoInode
        THEN [cache EXCEPT
                 !.saves = @ + 1,
                 !.names["index.tmp"] = cache.nextInode,
                 !.inodes = @ @@ (cache.nextInode :> <<>>),
                 !.nextInode = @ + 1,
                 !.saver[t] = [pc |-> "writing", fd |-> cache.nextInode,
                               pos |-> 0]]
        ELSE [cache EXCEPT
                 !.saves = @ + 1,
                 !.inodes[cache.names["index.tmp"]] = <<>>,
                 !.saver[t] = [pc |-> "writing",
                               fd |-> cache.names["index.tmp"], pos |-> 0]]
    /\ UNCHANGED nonCacheVars

\* save, fs::write (cache.rs:67): one write call puts the next chunk of the
\* document at the offset of the task's file descriptor
SaveWrite(t) ==
    /\ cache.saver[t].pc = "writing"
    /\ cache.saver[t].pos < DocChunks
    /\ cache' =
        [cache EXCEPT
            !.inodes[cache.saver[t].fd] =
                WriteAt(@, cache.saver[t].pos, ToJson(t)[cache.saver[t].pos + 1]),
            !.saver[t].pos = @ + 1,
            !.saver[t].pc = IF cache.saver[t].pos + 1 = DocChunks
                            THEN "written" ELSE "writing"]
    /\ UNCHANGED nonCacheVars

\* save, fs::write fails (cache.rs:68-71): save returns IoError
SaveWriteFails(t) ==
    /\ cache.saver[t].pc = "writing"
    /\ cache' = [cache EXCEPT !.saver[t] = [IdleSaver EXCEPT !.pc = "failed"]]
    /\ UNCHANGED nonCacheVars

\* save, fs::rename (cache.rs:74-80): index.tmp replaces index.json; the
\* rename fails when index.tmp is gone
SaveRename(t) ==
    /\ cache.saver[t].pc = "written"
    /\ cache' =
        IF cache.names["index.tmp"] # NoInode
        THEN [cache EXCEPT
                 !.names["index.json"] = cache.names["index.tmp"],
                 !.names["index.tmp"] = NoInode,
                 !.saver[t] = [IdleSaver EXCEPT !.pc = "saved"]]
        ELSE [cache EXCEPT !.saver[t] = [IdleSaver EXCEPT !.pc = "failed"]]
    /\ UNCHANGED nonCacheVars

\* the caller of save goes on after the result
SaveReturn(t) ==
    /\ cache.saver[t].pc \in {"saved", "failed"}
    /\ cache' = [cache EXCEPT !.saver[t] = IdleSaver]
    /\ UNCHANGED nonCacheVars

\* the indexes that were handed to save or were there at the start
Documents == {OldIndex} \cup Savers

\* Index::from_json: the index of a complete document, InvalidJson otherwise
FromJson(content) ==
    IF \E d \in Documents : content = ToJson(d)
    THEN CHOOSE d \in Documents : content = ToJson(d)
    ELSE InvalidJson

\* IndexCache::load (cache.rs:37-47)
Load ==
    LET result == IF cache.names["index.json"] = NoInode THEN PathNotFound
                  ELSE FromJson(cache.inodes[cache.names["index.json"]])
    IN  /\ result # cache.loaded
        /\ cache' = [cache EXCEPT !.loaded = result]
        /\ UNCHANGED nonCacheVars

\* the process is killed: every save in flight is gone, the files stay
CrashCache ==
    /\ \E t \in Savers : cache.saver[t].pc # "idle"
    /\ cache' = [cache EXCEPT !.saver = [t \in Savers |-> IdleSaver]]
    /\ UNCHANGED nonCacheVars

NextCache ==
    \/ \E t \in Savers : SaveOpen(t)
    \/ \E t \in Savers : SaveWrite(t)
    \/ \E t \in Savers : SaveWriteFails(t)
    \/ \E t \in Savers : SaveRename(t)
    \/ \E t \in Savers : SaveReturn(t)
    \/ Load
    \/ CrashCache

SpecCache == InitCache /\ [][NextCache]_vars

\* C21 as stated: index.json always holds a complete document, the index of
\* the start or one handed to save, load never returns a parse error, and a
\* save that fails leaves index.json as the last successful save or the start
\* left it.
C21_SaveAtomic ==
    /\ cache.names["index.json"] # NoInode
    /\ FromJson(cache.inodes[cache.names["index.json"]]) # InvalidJson
    /\ cache.loaded # InvalidJson

(***************************************************************************)
(* BuilderApi::fetch (builder/src/api.rs)                                  *)
(***************************************************************************)
\* number of fetch calls that are explored
MaxFetches == 3

\* retries of a download after a transport error
MaxRetries == 3

\* the digest of what the server sends for a url
Served(url) == IF url = <<"b", "x">> THEN "h2" ELSE "h1"

\* a BuilderApi on its working directory; nothing else is constructed
InitFetch ==
    /\ IdleButCache
    /\ NewFetch
    /\ cache = NotConstructed
    /\ rec = NotConstructed
    /\ build = NotConstructed
    /\ tar = NotConstructed
    /\ ver = NotConstructed
    /\ vcfg = NotConstructed
    /\ exec = NotConstructed
    /\ api = NotConstructed

\* what the call in progress returns
Return(kind) ==
    [kind |-> kind, url |-> fetch.fcall.url, expected |-> fetch.fcall.expected,
     path |-> Filename(fetch.fcall.url)]

\* the call is over; the counts of its requests are kept
Returned ==
    [IdleFetch EXCEPT !.attempts = fetch.fcall.attempts,
                      !.errors = fetch.fcall.errors]

\* fetch (api.rs:77-93): a url that is recorded returns its path at once
FetchCall(url, expected) ==
    /\ fetch.fcall.pc = "idle"
    /\ fetch.fetches < MaxFetches
    /\ fetch' =
        IF url \in DOMAIN fetch.downloads
        THEN [fetch EXCEPT
                 !.fetches = @ + 1,
                 !.fresult = [kind |-> "Ok", url |-> url, expected |-> expected,
                              path |-> fetch.downloads[url]]]
        ELSE [fetch EXCEPT
                 !.fetches = @ + 1,
                 !.fcall = [pc |-> "get", url |-> url, expected |-> expected,
                            attempts |-> 1, errors |-> 0],
                 !.fresult = NoResult]
    /\ UNCHANGED nonFetchVars

\* net_client.get (api.rs:97): a transport error; the client sends the request
\* again until MaxRetries retries are used up, then the error is returned
NetGetFails ==
    /\ fetch.fcall.pc = "get"
    /\ fetch' =
        IF fetch.fcall.errors < MaxRetries
        THEN [fetch EXCEPT !.fcall.attempts = @ + 1, !.fcall.errors = @ + 1]
        ELSE [fetch EXCEPT
                 !.fcall = [Returned EXCEPT !.errors = @ + 1],
                 !.fresult = Return("NetworkError")]
    /\ UNCHANGED nonFetchVars

\* net_client.get returns a response (api.rs:97)
NetGetOk ==
    /\ fetch.fcall.pc = "get"
    /\ fetch' = [fetch EXCEPT !.fcall.pc = "bytes"]
    /\ UNCHANGED nonFetchVars

\* response.bytes() fails (api.rs:98-103): FetchFailed
BytesFails ==
    /\ fetch.fcall.pc = "bytes"
    /\ fetch' = [fetch EXCEPT !.fcall = Returned,
                              !.fresult = Return("FetchFailed")]
    /\ UNCHANGED nonFetchVars

\* response.bytes() and fs::write (api.rs:98-104)
FetchWrite ==
    /\ fetch.fcall.pc = "bytes"
    /\ fetch' = [fetch EXCEPT
                    !.wfiles[Filename(fetch.fcall.url)] = Served(fetch.fcall.url),
                    !.fcall.pc = "verify"]
    /\ UNCHANGED nonFetchVars

\* a verification that downloads again on a mismatch
FetchVerifyRetries ==
    /\ fetch.fcall.pc = "verify"
    /\ fetch' =
        IF fetch.wfiles[Filename(fetch.fcall.url)] # fetch.fcall.expected
        THEN [fetch EXCEPT
                 !.wfiles[Filename(fetch.fcall.url)] = NoFile,
                 !.fcall.pc = "get",
                 !.fcall.attempts = @ + 1]
        ELSE [fetch EXCEPT
                 !.downloads = @ @@ (fetch.fcall.url :> Filename(fetch.fcall.url)),
                 !.fcall.pc = "extract"]
    /\ UNCHANGED nonFetchVars

\* Hash::hash_file and the comparison (api.rs:106-119): a mismatch removes the
\* file and returns HashMismatch, a match records the url
FetchVerify ==
    /\ fetch.fcall.pc = "verify"
    /\ fetch' =
        IF fetch.wfiles[Filename(fetch.fcall.url)] # fetch.fcall.expected
        THEN [fetch EXCEPT
                 !.wfiles[Filename(fetch.fcall.url)] = NoFile,
                 !.fcall = Returned,
                 !.fresult = Return("HashMismatch")]
        ELSE [fetch EXCEPT
                 !.downloads = @ @@ (fetch.fcall.url :> Filename(fetch.fcall.url)),
                 !.fcall.pc = "extract"]
    /\ UNCHANGED nonFetchVars

\* extract_single_download (api.rs:121-124) succeeds: Ok(download_path)
ExtractOk ==
    /\ fetch.fcall.pc = "extract"
    /\ fetch' = [fetch EXCEPT !.fcall = Returned, !.fresult = Return("Ok")]
    /\ UNCHANGED nonFetchVars

\* extract_single_download (api.rs:122) fails: the error is returned
ExtractFails ==
    /\ fetch.fcall.pc = "extract"
    /\ fetch' = [fetch EXCEPT !.fcall = Returned,
                              !.fresult = Return("ExtractFailed")]
    /\ UNCHANGED nonFetchVars

NextFetch ==
    \/ \E url \in Urls, expected \in Hashes : FetchCall(url, expected)
    \/ NetGetFails
    \/ NetGetOk
    \/ BytesFails
    \/ FetchWrite
    \/ FetchVerify
    \/ ExtractOk
    \/ ExtractFails

SpecFetch == InitFetch /\ [][NextFetch]_vars

\* C22 as stated: whenever fetch has returned Ok, the file at the returned
\* path has the digest that the call expected.
C22_OkMeansVerified ==
    fetch.fresult.kind = "Ok" =>
        fetch.wfiles[fetch.fresult.path] = fetch.fresult.expected

MaxCalls == 3

\* largest max_errors that is explored
MaxTolerated == 1

\* an error, by the words that its message contains
Errors ==
    {{}, {"corrupted"}, {"invalid"}, {"timeout"}, {"manifest"},
     {"manifest", "corrupted"}, {"path", "long"}, {"checksum"}}

\* the error types that custom handlers are registered for
HandlerTypes == {"corrupted", "manifest"}

Fail == [kind |-> "Fail", text |-> ""]

ConvertToWarning(text) == [kind |-> "ConvertToWarning", text |-> text]

Skip == [kind |-> "Skip", text |-> ""]

Retry == [kind |-> "Retry", text |-> ""]

CustomFix(text) == [kind |-> "CustomFix", text |-> text]

\* what a custom handler may return
HandlerActions == {Fail, Skip, Retry, CustomFix("custom")}

\* ErrorRecoveryManager::new(strategy).with_max_errors(n) (recovery.rs:77-92);
\* the other components idle
InitRec ==
    /\ IdleButCache
    /\ cache = NotConstructed
    /\ fetch = NotConstructed
    /\ build = NotConstructed
    /\ tar = NotConstructed
    /\ ver = NotConstructed
    /\ vcfg = NotConstructed
    /\ exec = NotConstructed
    /\ api = NotConstructed
    /\ \E s \in RecoveryStrategies, n \in 0..MaxTolerated :
           rec = NewManagerRec(s, n)

\* determine_warning_action (recovery.rs:185-207)
DetermineWarningAction(e) ==
    IF "corrupted" \in e \/ "invalid" \in e
    THEN ConvertToWarning("Package has corruption issues but validation continuing")
    ELSE IF "utf-8" \in e \/ "encoding" \in e
    THEN ConvertToWarning("Package has encoding issues but may be usable")
    ELSE IF "cksum" \in e \/ "checksum" \in e
    THEN ConvertToWarning("Package has checksum issues but attempting to continue")
    ELSE ConvertToWarning("Non-critical validation error")

\* determine_auto_recovery_action (recovery.rs:210-227)
DetermineAutoRecoveryAction(e) ==
    IF "timeout" \in e
    THEN CustomFix("Extended timeout for large package")
    ELSE IF "permission" \in e
    THEN CustomFix("Applied safe permission defaults")
    ELSE IF "path" \in e /\ "long" \in e
    THEN CustomFix("Truncated overly long paths")
    ELSE IF "corrupted" \in e
    THEN ConvertToWarning("Auto-recovery: Skipped corrupted sections")
    ELSE DetermineWarningAction(e)

\* a skip strategy that fails on manifest errors
DetermineSkipActionFailsManifest(e) ==
    IF "manifest" \in e
    THEN Fail
    ELSE IF "corrupted" \in e \/ "invalid" \in e
    THEN Skip
    ELSE ConvertToWarning("Skipping problematic validation component")

\* determine_skip_action (recovery.rs:230-243)
DetermineSkipAction(e) ==
    IF "manifest" \in e
    THEN ConvertToWarning("Manifest issues detected but continuing")
    ELSE IF "corrupted" \in e \/ "invalid" \in e
    THEN Skip
    ELSE ConvertToWarning("Skipping problematic validation component")

\* statistics that count every action as a recovery
ApplyRecoveryStatsAll(stats, action) ==
    [stats EXCEPT !.recovered_errors = @ + 1,
                  !.success_rate = <<stats.recovered_errors + 1, stats.total_errors>>]

\* apply_recovery_stats (recovery.rs:246-272)
ApplyRecoveryStats(stats, action) ==
    LET s1 ==
            IF action.kind = "ConvertToWarning"
            THEN [stats EXCEPT !.recovered_errors = @ + 1,
                               !.errors_to_warnings = @ + 1]
            ELSE IF action.kind = "Skip"
            THEN [stats EXCEPT !.recovered_errors = @ + 1,
                               !.skipped_operations = @ + 1]
            ELSE IF action.kind = "Retry"
            THEN [stats EXCEPT !.retry_attempts = @ + 1]
            ELSE IF action.kind = "CustomFix"
            THEN [stats EXCEPT !.recovered_errors = @ + 1]
            ELSE stats
    IN  IF s1.total_errors > 0
        THEN [s1 EXCEPT !.success_rate = <<s1.recovered_errors, s1.total_errors>>]
        ELSE s1

\* a bound check that lets one more error through
ExceedsMaxLate(count, max) == count > max + 1

\* handle_error, the check of the bound (recovery.rs:108)
ExceedsMax(count, max) == count > max

\* handle_error (recovery.rs:103-136): the possible outcomes [error_count,
\* stats, ok, action]; more than one when several custom handlers match,
\* since the HashMap is iterated in no fixed order
HandleErrorOutcomes(e) ==
    LET count == rec.error_count + 1
        stats == [rec.recovery_stats EXCEPT !.total_errors = @ + 1]
        matching == {t \in DOMAIN rec.custom_handlers : t \in e}
        default ==
            IF rec.strategy = "FailFast" THEN Fail
            ELSE IF rec.strategy = "ContinueWithWarnings"
            THEN DetermineWarningAction(e)
            ELSE IF rec.strategy = "AutoRecover"
            THEN DetermineAutoRecoveryAction(e)
            ELSE DetermineSkipAction(e)
        actions == IF matching # {} THEN {rec.custom_handlers[t] : t \in matching}
                   ELSE {default}
    IN  IF ExceedsMax(count, rec.max_errors)
        THEN {[error_count |-> count, stats |-> stats, ok |-> FALSE, action |-> Fail]}
        ELSE {[error_count |-> count, stats |-> ApplyRecoveryStats(stats, a),
               ok |-> TRUE, action |-> a] : a \in actions}

\* ValidationResult::add_warning
AddWarning(result, text) == [result EXCEPT !.warnings = Append(@, text)]

\* set_recovery_defaults (recovery.rs:174-182)
SetRecoveryDefaults(result) ==
    [result EXCEPT !.file_count = IF @ = 0 THEN 1 ELSE @,
                   !.extracted_size = IF @ = 0 THEN 1024 ELSE @]

\* apply_recovery_action (recovery.rs:139-171): [ok, result, stats]
ApplyRecoveryAction(action, result, stats) ==
    IF action.kind = "Fail"
    THEN [ok |-> FALSE, result |-> result, stats |-> stats]
    ELSE IF action.kind = "ConvertToWarning"
    THEN [ok |-> TRUE, stats |-> stats,
          result |-> SetRecoveryDefaults(AddWarning(result, action.text))]
    ELSE IF action.kind = "Skip"
    THEN [ok |-> TRUE, stats |-> stats,
          result |-> SetRecoveryDefaults(
                         AddWarning(result, "Skipped problematic validation step"))]
    ELSE IF action.kind = "Retry"
    THEN [ok |-> TRUE, result |-> result,
          stats |-> [stats EXCEPT !.retry_attempts = @ + 1]]
    ELSE [ok |-> TRUE, stats |-> stats,
          result |-> SetRecoveryDefaults(
                         AddWarning(result, "Applied fix: " \o action.text))]

\* is_recovery_viable (recovery.rs:282-289); success_rate >= 0.5 on the quotient
IsRecoveryViableCountOnly(count, max, stats) == count <= max

IsRecoveryViable(count, max, stats) ==
    IF stats.total_errors = 0
    THEN count <= max
    ELSE count <= max /\ 2 * stats.success_rate[1] >= stats.success_rate[2]

\* add_custom_handler (recovery.rs:95-100)
AddCustomHandler(t, action) ==
    /\ rec.rcalls = 0
    /\ t \notin DOMAIN rec.custom_handlers
    /\ rec' = [rec EXCEPT !.custom_handlers =
                   [k \in DOMAIN rec.custom_handlers \cup {t} |->
                       IF k = t THEN action ELSE rec.custom_handlers[k]]]
    /\ UNCHANGED nonRecVars

\* handle_error (recovery.rs:103-136)
HandleError(e) ==
    /\ rec.rcalls < MaxCalls
    /\ \E o \in HandleErrorOutcomes(e) :
        rec' = [rec EXCEPT
                   !.rcalls = @ + 1,
                   !.error_count = o.error_count,
                   !.recovery_stats = o.stats,
                   !.rret = [fn |-> "handle_error",
                             kind |-> IF o.ok THEN o.action.kind ELSE "Err"],
                   !.rerr = IF o.ok THEN "none" ELSE "TooManyErrors"]
    /\ UNCHANGED nonRecVars

\* reset (recovery.rs:292-295)
Reset ==
    /\ rec.error_count # 0 \/ rec.recovery_stats # DefaultStats
    /\ rec' = [rec EXCEPT !.error_count = 0,
                          !.recovery_stats = DefaultStats,
                          !.rret = NoReturn,
                          !.rerr = "none"]
    /\ UNCHANGED nonRecVars

\* resilient_validation (recovery.rs:302-330) around an operation that succeeds
ResilientValidationOk ==
    /\ rec.rcalls < MaxCalls
    /\ rec' = [rec EXCEPT
                   !.rcalls = @ + 1,
                   !.rret = [fn |-> "resilient_validation", kind |-> "OkSome"],
                   !.rerr = "none"]
    /\ UNCHANGED nonRecVars

\* resilient_validation (recovery.rs:302-330) around an operation that fails
\* with error e
ResilientValidationErr(e) ==
    /\ rec.rcalls < MaxCalls
    /\ \E o \in HandleErrorOutcomes(e) :
        rec' =
            IF ~o.ok \/ o.action.kind = "Fail"
            THEN [rec EXCEPT
                     !.rcalls = @ + 1,
                     !.error_count = o.error_count,
                     !.recovery_stats = o.stats,
                     !.rret = [fn |-> "resilient_validation", kind |-> "Err"],
                     !.rerr = IF o.ok THEN "original" ELSE "TooManyErrors"]
            ELSE LET r == ApplyRecoveryAction(o.action, rec.vresult, o.stats)
                 IN  [rec EXCEPT
                         !.rcalls = @ + 1,
                         !.error_count = o.error_count,
                         !.recovery_stats = r.stats,
                         !.vresult = r.result,
                         !.rret = [fn |-> "resilient_validation",
                                   kind |-> IF r.ok THEN "OkNone" ELSE "Err"],
                         !.rerr = IF r.ok THEN "none" ELSE "Unrecoverable"]
    /\ UNCHANGED nonRecVars

NextRec ==
    \/ \E t \in HandlerTypes, a \in HandlerActions : AddCustomHandler(t, a)
    \/ \E e \in Errors : HandleError(e)
    \/ Reset
    \/ ResilientValidationOk
    \/ \E e \in Errors : ResilientValidationErr(e)

SpecRec == InitRec /\ [][NextRec]_vars

\* the claim's condition on the fields of the manager
CountAndRateOk ==
    /\ rec.error_count <= rec.max_errors
    /\ 2 * rec.recovery_stats.success_rate[1] >= rec.recovery_stats.success_rate[2]

\* C24 as stated: in every state that calls of handle_error and reset have
\* led to, is_recovery_viable() is true exactly when error_count <= max_errors
\* and success_rate >= 0.5.
C24_ViableIffCountAndRate ==
    rec.rcalls > 0 =>
        (IsRecoveryViable(rec.error_count, rec.max_errors, rec.recovery_stats)
            <=> CountAndRateOk)

\* C24 amended: once an error was counted, is_recovery_viable() is true exactly
\* when error_count <= max_errors and success_rate >= 0.5; before the first
\* error and after reset it is true exactly when error_count <= max_errors.
C24_ViableIffAfterError ==
    IsRecoveryViable(rec.error_count, rec.max_errors, rec.recovery_stats) <=>
        IF rec.recovery_stats.total_errors = 0
        THEN rec.error_count <= rec.max_errors
        ELSE CountAndRateOk

\* errors were counted, the count is within the bound and the rate is too low
C24_Witness ==
    /\ rec.recovery_stats.total_errors > 0
    /\ rec.error_count <= rec.max_errors
    /\ 2 * rec.recovery_stats.success_rate[1] < rec.recovery_stats.success_rate[2]
    /\ ~IsRecoveryViable(rec.error_count, rec.max_errors, rec.recovery_stats)

\* C25: since the last reset, a handle_error that is the (max_errors+1)-th or
\* a later one has returned an error, and at most max_errors errors count as
\* recovered.
C25_BoundedByMaxErrors ==
    /\ rec.rret.fn = "handle_error" /\ rec.error_count > rec.max_errors
           => rec.rret.kind = "Err"
    /\ rec.recovery_stats.recovered_errors <= rec.max_errors

\* with a custom handler registered, handle_error was called two times past
\* the bound and max_errors errors were recovered
C25_Witness ==
    /\ rec.custom_handlers # <<>>
    /\ rec.max_errors > 0
    /\ rec.error_count > rec.max_errors + 1
    /\ rec.recovery_stats.recovered_errors = rec.max_errors
    /\ rec.rret = [fn |-> "handle_error", kind |-> "Err"]

\* C26: a resilient_validation step whose operation fails, under a strategy
\* other than FailFast, with no custom handler and within the bound, returns
\* Ok(None) and appends exactly one warning to the ValidationResult.
C26_Downgraded ==
    [][(/\ \E e \in Errors : ResilientValidationErr(e)
        /\ rec.strategy # "FailFast"
        /\ rec.custom_handlers = <<>>
        /\ rec.error_count < rec.max_errors)
       => /\ rec'.rret = [fn |-> "resilient_validation", kind |-> "OkNone"]
          /\ Len(rec'.vresult.warnings) = Len(rec.vresult.warnings) + 1
          /\ SubSeq(rec'.vresult.warnings, 1, Len(rec.vresult.warnings))
                 = rec.vresult.warnings]_vars

\* a manifest error was downgraded by SkipProblematic
C26_Witness ==
    /\ rec.strategy = "SkipProblematic"
    /\ rec.custom_handlers = <<>>
    /\ rec.rret = [fn |-> "resilient_validation", kind |-> "OkNone"]
    /\ Len(rec.vresult.warnings) = 1
    /\ rec.vresult.warnings[1] = "Manifest issues detected but continuing"

(***************************************************************************)
(* Build phases, external commands and DESTDIR (builder/src/api.rs,        *)
(* environment/execution.rs, build_systems/cmake.rs, meson.rs)             *)
(***************************************************************************)
\* exit codes of an external command
ExitCodes == {0, 1}

\* the state machine of a build (section 4.4)
PhaseOrder ==
    <<"Loaded", "Fetched", "Extracted", "Configured", "Built", "Tested",
      "Staged", "Patched", "SBomed", "Packaged">>

PhaseIndex(p) == CHOOSE i \in DOMAIN PhaseOrder : PhaseOrder[i] = p

\* the phases that the orchestrator runs itself, as <<from, to>>
OrchestratorSteps ==
    {<<"New", "Loaded">>, <<"Loaded", "Fetched">>, <<"Fetched", "Extracted">>,
     <<"Built", "Tested">>, <<"Staged", "Patched">>, <<"Patched", "SBomed">>,
     <<"SBomed", "Packaged">>}

\* builds start with any driver; DESTDIR of the process may be set from outside
InitBuild ==
    /\ IdleButCache
    /\ cache = NotConstructed
    /\ fetch = NotConstructed
    /\ rec = NotConstructed
    /\ tar = NotConstructed
    /\ ver = NotConstructed
    /\ vcfg = NotConstructed
    /\ exec = NotConstructed
    /\ api = NotConstructed
    /\ \E d \in [Builds -> Drivers], e \in {Unset, "/elsewhere"} :
           build = NewBuilds(d, e)

\* execute_command, the result for an exit code (execution.rs:144-167)
ExecuteCommand(exit) == IF exit = 0 THEN "Ok" ELSE "Err"

\* a step that goes on whatever the result was
AfterResultIgnored(result, next) == next

\* the ? operator after a step of the build (api.rs:286-292): the phase
\* reached on Ok, the build fails on Err
AfterResult(result, next) == IF result = "Ok" THEN next ELSE "Failed"

\* a child that sees only the environment of the process
ChildDestdirOfProcess(b) == build.process_env

\* the DESTDIR that a command run by BuildSystemContext::execute sees: the
\* child inherits the environment of the process (Command, execution.rs:59-68)
\* with the context's environment-variable map laid over it
ChildDestdir(b) ==
    IF build.extra_env[b] # Unset THEN build.extra_env[b] ELSE build.process_env

\* the record of one command in the history
Command(b, step, program, exit) ==
    [step |-> step, program |-> program, exit |-> exit,
     result |-> ExecuteCommand(exit), destdir |-> ChildDestdir(b),
     penv |-> build.process_env]

\* the builds once build b has entered phase p
Enter(b, p) ==
    [build EXCEPT !.bphase[b] = p, !.trail[b] = Append(@, p)]

\* a phase of the orchestrator: recipe load, source acquisition, extraction,
\* tests, path relocation, SBOM, packaging
Advance(b, from, to, ok) ==
    /\ build.bphase[b] = from
    /\ build.bpc[b] = "none"
    /\ build' = Enter(b, IF ok THEN to ELSE "Failed")
    /\ UNCHANGED nonBuildVars

\* BuilderApi::cmake / meson, configure (api.rs:265-286, cmake.rs:173-196)
Configure(b, exit) ==
    /\ build.bphase[b] = "Extracted"
    /\ build' = [Enter(b, AfterResult(ExecuteCommand(exit), "Configured")) EXCEPT
                     !.ran[b] = Append(@, Command(b, "configure",
                                                  build.driver[b], exit))]
    /\ UNCHANGED nonBuildVars

\* BuilderApi::cmake / meson, build (api.rs:288-289, cmake.rs:198-228)
Build(b, exit) ==
    /\ build.bphase[b] = "Configured"
    /\ build' = [Enter(b, AfterResult(ExecuteCommand(exit), "Built")) EXCEPT
                     !.ran[b] = Append(@, Command(b, "build",
                                                  build.driver[b], exit))]
    /\ UNCHANGED nonBuildVars

\* install, DESTDIR is set (cmake.rs:296-304, meson.rs:235-238): in the
\* context's map, and by the cmake driver also in the process
InstallSetEnv(b) ==
    /\ build.bphase[b] \in {"Built", "Tested"}
    /\ build.bpc[b] = "none"
    /\ build' = [build EXCEPT
                     !.extra_env[b] = StagingDir(b),
                     !.process_env = IF build.driver[b] = "cmake"
                                     THEN StagingDir(b) ELSE @,
                     !.bpc[b] = "env_set"]
    /\ UNCHANGED nonBuildVars

\* install, the install command (cmake.rs:306-314, meson.rs:241-258): when
\* cmake --install fails the cmake driver goes on to make install
InstallSpawn(b, exit) ==
    /\ build.bpc[b] = "env_set"
    /\ LET cmd == Command(b, "install", build.driver[b], exit)
       IN  build' =
               IF build.driver[b] = "cmake" /\ ExecuteCommand(exit) = "Err"
               THEN [build EXCEPT !.ran[b] = Append(@, cmd),
                                  !.bpc[b] = "fallback"]
               ELSE [Enter(b, AfterResult(ExecuteCommand(exit), "Staged")) EXCEPT
                        !.ran[b] = Append(@, cmd),
                        !.bpc[b] = "none"]
    /\ UNCHANGED nonBuildVars

\* CMakeBuildSystem::install, the fallback sets DESTDIR again (cmake.rs:315-319)
FallbackSetEnv(b) ==
    /\ build.bpc[b] = "fallback"
    /\ build' = [build EXCEPT !.process_env = StagingDir(b),
                              !.bpc[b] = "fallback_env"]
    /\ UNCHANGED nonBuildVars

\* CMakeBuildSystem::install, make install (cmake.rs:321-334)
FallbackSpawn(b, exit) ==
    /\ build.bpc[b] = "fallback_env"
    /\ build' = [Enter(b, AfterResult(ExecuteCommand(exit), "Staged")) EXCEPT
                     !.ran[b] = Append(@, Command(b, "install", "make", exit)),
                     !.bpc[b] = "none"]
    /\ UNCHANGED nonBuildVars

NextBuild ==
    \/ \E b \in Builds, s \in OrchestratorSteps, ok \in BOOLEAN :
           Advance(b, s[1], s[2], ok)
    \/ \E b \in Builds, exit \in ExitCodes : Configure(b, exit)
    \/ \E b \in Builds, exit \in ExitCodes : Build(b, exit)
    \/ \E b \in Builds : InstallSetEnv(b)
    \/ \E b \in Builds, exit \in ExitCodes : InstallSpawn(b, exit)
    \/ \E b \in Builds : FallbackSetEnv(b)
    \/ \E b \in Builds, exit \in ExitCodes : FallbackSpawn(b, exit)

SpecBuild == InitBuild /\ [][NextBuild]_vars

\* configure, build, install as 1, 2, 3
StepIndex(step) ==
    IF step = "configure" THEN 1 ELSE IF step = "build" THEN 2 ELSE 3

\* C27: the phases a build has entered follow the order Loaded, Fetched,
\* Extracted, Configured, Built, (Tested), Staged, Patched, SBomed, Packaged,
\* nothing follows a failure, and the commands of the build-system step ran
\* as configure, build, install, a later one only after the earlier one
\* exited with 0.
C27_StrictPhaseOrder ==
    \A b \in Builds :
        /\ \A i \in 1..Len(build.trail[b]) :
            /\ i = 1 => build.trail[b][i] \in {"Loaded", "Failed"}
            /\ i > 1 =>
                /\ build.trail[b][i - 1] # "Failed"
                /\ \/ build.trail[b][i] = "Failed"
                   \/ PhaseIndex(build.trail[b][i]) = PhaseIndex(build.trail[b][i - 1]) + 1
                   \/ build.trail[b][i - 1] = "Built" /\ build.trail[b][i] = "Staged"
        /\ \A i, j \in DOMAIN build.ran[b] :
            i < j =>
                /\ StepIndex(build.ran[b][i].step) <= StepIndex(build.ran[b][j].step)
                /\ StepIndex(build.ran[b][i].step) < StepIndex(build.ran[b][j].step)
                       => build.ran[b][i].exit = 0

\* a build was packaged without tests, another one failed in its build step
C27_Witness ==
    /\ build.trail["b1"] = <<"Loaded", "Fetched", "Extracted", "Configured", "Built",
                       "Staged", "Patched", "SBomed", "Packaged">>
    /\ build.trail["b2"] = <<"Loaded", "Fetched", "Extracted", "Configured", "Failed">>
    /\ Len(build.ran["b2"]) = 2

\* C28 as stated: a command that exited with a non-zero code made
\* execute_command return an error, no other command of the build ran after
\* it, and the build did not get past the phase.
C28_NonZeroExitFatal ==
    \A b \in Builds : \A i \in DOMAIN build.ran[b] :
        build.ran[b][i].exit # 0 =>
            /\ build.ran[b][i].result = "Err"
            /\ i = Len(build.ran[b])
            /\ build.bphase[b] \notin {"Staged", "Patched", "SBomed", "Packaged"}

Entries ==
    {[path |-> <<"a">>, dir |-> TRUE], [path |-> <<"b">>, dir |-> TRUE],
     [path |-> <<"f">>, dir |-> FALSE], [path |-> <<"a", "x">>, dir |-> FALSE],
     [path |-> <<"b", "x">>, dir |-> FALSE],
     [path |-> <<"a", "d">>, dir |-> TRUE],
     [path |-> <<"a", "d", "y">>, dir |-> FALSE]}

\* any archive of either format has been downloaded
InitTar ==
    /\ IdleButCache
    /\ cache = NotConstructed
    /\ fetch = NotConstructed
    /\ rec = NotConstructed
    /\ build = NotConstructed
    /\ ver = NotConstructed
    /\ vcfg = NotConstructed
    /\ exec = NotConstructed
    /\ api = NotConstructed
    /\ \E a \in SUBSET Entries, f \in {"tar", "zip"} :
           tar = [archive |-> a, format |-> f, extracted |-> NotExtracted]

\* extract_compressed_tar (api.rs:862-889): entries of one component are
\* skipped, the first component of every other entry is dropped
ExtractTarEntries(arch) ==
    {[entry |-> e, out |-> Tail(e.path)] : e \in {x \in arch : Len(x.path) > 1}}

\* should_strip_zip_components (api.rs:953-984)
ShouldStripZipComponents(arch) ==
    LET top_level_dirs == {e.path[1] : e \in {x \in arch : Len(x.path) = 1 /\ x.dir}}
        has_files_at_root == \E e \in arch : Len(e.path) = 1 /\ ~e.dir
    IN  Cardinality(top_level_dirs) = 1 /\ ~has_files_at_root

\* extract_zip (api.rs:707-730)
ExtractZipEntries(arch) ==
    LET strip_components == IF ShouldStripZipComponents(arch) THEN 1 ELSE 0
    IN  IF strip_components = 0
        THEN {[entry |-> e, out |-> e.path] : e \in arch}
        ELSE {[entry |-> e, out |-> Tail(e.path)] :
                 e \in {x \in arch : Len(x.path) > strip_components}}

\* extract_single_download (api.rs:634-655) for a tar archive
ExtractTar ==
    /\ tar.format = "tar"
    /\ tar.extracted = NotExtracted
    /\ tar' = [tar EXCEPT !.extracted =
                   [done |-> TRUE, entries |-> ExtractTarEntries(tar.archive)]]
    /\ UNCHANGED nonTarVars

\* extract_single_download (api.rs:634-655) for a zip archive
ExtractZip ==
    /\ tar.format = "zip"
    /\ tar.extracted = NotExtracted
    /\ tar' = [tar EXCEPT !.extracted =
                   [done |-> TRUE, entries |-> ExtractZipEntries(tar.archive)]]
    /\ UNCHANGED nonTarVars

NextTar == ExtractTar \/ ExtractZip

SpecTar == InitTar /\ [][NextTar]_vars

\* the archive consists of a single top-level directory: all paths start with
\* one name and no file lies at the top level
SingleRootDir(arch) ==
    /\ Cardinality({e.path[1] : e \in arch}) = 1
    /\ ~\E e \in arch : Len(e.path) = 1 /\ ~e.dir

\* C30 as stated: an archive that does not consist of a single top-level
\* directory is extracted entry by entry at the original paths, and the first
\* component is stripped exactly when the archive consists of a single
\* top-level directory.
C30_IdentityUnlessSingleRoot ==
    tar.extracted.done =>
        IF SingleRootDir(tar.archive)
        THEN tar.extracted.entries =
                 {[entry |-> e, out |-> Tail(e.path)] :
                     e \in {x \in tar.archive : Len(x.path) > 1}}
        ELSE tar.extracted.entries =
                 {[entry |-> e, out |-> e.path] : e \in tar.archive}

(***************************************************************************)
(* VersionSpec (types/src/version.rs)                                      *)
(***************************************************************************)
\* number of constraints of the specs that are constructed
MaxClauses == 2

\* the decimal digits, the digit d at index d + 1
Digits == <<"0", "1", "2", "3", "4", "5", "6", "7", "8", "9">>

\* semver::Version without pre-release and build metadata
Version(major, minor, patch) ==
    [major |-> major, minor |-> minor, patch |-> patch]

\* the versions that constraints are made of
Versions == {Version(1, 2, 0), Version(2, 0, 0), Version(1, 10, 3)}

\* the versions that specs are asked about
Candidates ==
    {Version(1, 1, 9), Version(1, 2, 0), Version(1, 4, 9), Version(1, 5, 0),
     Version(1, 9, 9), Version(2, 0, 0)}

\* VersionConstraint (version.rs:19-27), by the operator it is written with
Operators == {"==", ">=", "<=", ">", "<", "~=", "!="}

Constraints == [op : Operators, version : Versions]

\* every VersionSpec of up to MaxClauses constraints
VersionSpecs == UNION {[1..n -> Constraints] : n \in 0..MaxClauses}

\* Ord for semver::Version: major, then minor, then patch
VersionLess(a, b) ==
    \/ a.major < b.major
    \/ a.major = b.major /\ a.minor < b.minor
    \/ a.major = b.major /\ a.minor = b.minor /\ a.patch < b.patch

\* VersionConstraint::matches (version.rs:32-47)
ConstraintMatches(c, version) ==
    LET v == c.version
    IN  IF c.op = "==" THEN version = v
        ELSE IF c.op = ">=" THEN ~VersionLess(version, v)
        ELSE IF c.op = "<=" THEN ~VersionLess(v, version)
        ELSE IF c.op = ">" THEN VersionLess(v, version)
        ELSE IF c.op = "<" THEN VersionLess(version, v)
        ELSE IF c.op = "!=" THEN version # v
        ELSE /\ ~VersionLess(version, v)
             /\ version.major = v.major
             /\ version.minor = v.minor

\* VersionSpec::matches (version.rs:140-142): Iterator::all over the
\* constraints, from the first one on
RECURSIVE AllFrom(_, _, _)
AllFrom(constraints, i, version) ==
    IF i > Len(constraints) THEN TRUE
    ELSE IF ~ConstraintMatches(constraints[i], version) THEN FALSE
    ELSE AllFrom(constraints, i + 1, version)

SpecMatches(p, version) == AllFrom(p, 1, version)

\* Display for u64: the decimal digits of n
RECURSIVE DisplayNumber(_)
DisplayNumber(n) ==
    IF n < 10 THEN <<Digits[n + 1]>>
    ELSE Append(DisplayNumber(n \div 10), Digits[(n % 10) + 1])

\* Display for semver::Version
DisplayVersion(v) ==
    DisplayNumber(v.major) \o <<".">> \o DisplayNumber(v.minor) \o <<".">>
        \o DisplayNumber(v.patch)

\* the characters of an operator
OperatorChars(op) ==
    IF op = "==" THEN <<"=", "=">>
    ELSE IF op = ">=" THEN <<">", "=">>
    ELSE IF op = "<=" THEN <<"<", "=">>
    ELSE IF op = ">" THEN <<">">>
    ELSE IF op = "<" THEN <<"<">>
    ELSE IF op = "~=" THEN <<"~", "=">>
    ELSE <<"!", "=">>

\* Display for VersionConstraint (version.rs:103-115)
DisplayConstraint(c) == OperatorChars(c.op) \o DisplayVersion(c.version)

\* [T]::join(",")
RECURSIVE Join(_)
Join(strs) ==
    IF strs = <<>> THEN <<>>
    ELSE IF Len(strs) = 1 THEN strs[1]
    ELSE strs[1] \o <<",">> \o Join(Tail(strs))

\* Display for VersionSpec (version.rs:188-197)
DisplaySpec(p) ==
    IF p = <<>> THEN <<"*">>
    ELSE Join([i \in DOMAIN p |-> DisplayConstraint(p[i])])

\* str::trim, for the space as the only white space
RECURSIVE Trim(_)
Trim(s) ==
    IF s = <<>> THEN s
    ELSE IF s[1] = " " THEN Trim(Tail(s))
    ELSE IF s[Len(s)] = " " THEN Trim(SubSeq(s, 1, Len(s) - 1))
    ELSE s

\* str::split(sep): the parts between the separators
RECURSIVE Split(_, _)
Split(s, sep) ==
    IF \A i \in DOMAIN s : s[i] # sep THEN <<s>>
    ELSE LET i == CHOOSE k \in DOMAIN s :
                      s[k] = sep /\ \A j \in 1..(k - 1) : s[j] # sep
         IN  <<SubSeq(s, 1, i - 1)>> \o Split(SubSeq(s, i + 1, Len(s)), sep)

\* str::strip_prefix: whether s starts with the prefix
HasPrefix(s, prefix) ==
    Len(s) >= Len(prefix) /\ SubSeq(s, 1, Len(prefix)) = prefix

\* a result that is an error
Err(e) == [ok |-> FALSE, err |-> e]

Ok(value) == [ok |-> TRUE, value |-> value]

\* the value of a sequence of decimal digits
RECURSIVE NumberValue(_)
NumberValue(s) ==
    IF s = <<>> THEN 0
    ELSE 10 * NumberValue(SubSeq(s, 1, Len(s) - 1))
             + (CHOOSE d \in 0..9 : Digits[d + 1] = s[Len(s)])

\* a numeric identifier of semver: decimal digits, no leading zero
IsNumeric(s) ==
    /\ s # <<>>
    /\ \A i \in DOMAIN s : \E d \in 0..9 : Digits[d + 1] = s[i]
    /\ Len(s) > 1 => s[1] # "0"

\* semver::Version::parse for versions without pre-release and build
\* metadata: major.minor.patch, all three required
VersionParse(s) ==
    LET parts == Split(s, ".")
    IN  IF Len(parts) = 3 /\ \A i \in 1..3 : IsNumeric(parts[i])
        THEN Ok(Version(NumberValue(parts[1]), NumberValue(parts[2]),
                        NumberValue(parts[3])))
        ELSE Err("ParseError")

\* the operators in the order VersionConstraint::parse tries them
ParseOrder == <<"==", ">=", "<=", "!=", "~=", ">", "<">>

\* parse that tries the one-character operators first
ConstraintParseShortFirst(str) ==
    LET s == Trim(str)
        order == <<">", "<", "==", ">=", "<=", "!=", "~=">>
        found == {i \in DOMAIN order : HasPrefix(s, OperatorChars(order[i]))}
    IN  IF found = {} THEN Err("InvalidConstraint")
        ELSE LET op == order[CHOOSE i \in found : \A j \in found : i <= j]
                 v == VersionParse(Trim(SubSeq(s, Len(OperatorChars(op)) + 1,
                                               Len(s))))
             IN  IF v.ok THEN Ok([op |-> op, version |-> v.value]) ELSE v

\* VersionConstraint::parse (version.rs:50-100)
ConstraintParse(str) ==
    LET s == Trim(str)
        found == {i \in DOMAIN ParseOrder :
                     HasPrefix(s, OperatorChars(ParseOrder[i]))}
    IN  IF found = {} THEN Err("InvalidConstraint")
        ELSE LET op == ParseOrder[CHOOSE i \in found : \A j \in found : i <= j]
                 v == VersionParse(Trim(SubSeq(s, Len(OperatorChars(op)) + 1,
                                               Len(s))))
             IN  IF v.ok THEN Ok([op |-> op, version |-> v.value]) ELSE v

\* VersionSpec::from_str (version.rs:160-185): the first error of a part is
\* the error of the whole
FromStr(str) ==
    LET s == Trim(str)
    IN  IF s = <<>> \/ s = <<"*">> THEN Ok(<<>>)
        ELSE LET parts == Split(s, ",")
                 results == [i \in DOMAIN parts |-> ConstraintParse(Trim(parts[i]))]
                 failed == {i \in DOMAIN parts : ~results[i].ok}
             IN  IF failed # {}
                 THEN results[CHOOSE i \in failed : \A j \in failed : i <= j]
                 ELSE Ok([i \in DOMAIN parts |-> results[i].value])

\* ">=1.2,<2.0,!=1.5.0"
ExampleText ==
    <<">", "=", "1", ".", "2", ",", "<", "2", ".", "0", ",",
      "!", "=", "1", ".", "5", ".", "0">>

\* " >= 1.2.0, <2.0.0 ,!=1.5.0"
FullText ==
    <<" ", ">", "=", " ", "1", ".", "2", ".", "0", ",", " ", "<", "2", ".",
      "0", ".", "0", " ", ",", "!", "=", "1", ".", "5", ".", "0">>

\* the strings that are parsed without having been displayed
Texts == {ExampleText, FullText, <<"*">>}

NotParsed == [ok |-> FALSE, err |-> "not called"]

NoMatch == [called |-> FALSE]

\* a VersionSpec p has been constructed; nothing else is
InitVer ==
    /\ IdleButCache
    /\ cache = NotConstructed
    /\ fetch = NotConstructed
    /\ rec = NotConstructed
    /\ build = NotConstructed
    /\ tar = NotConstructed
    /\ vcfg = NotConstructed
    /\ exec = NotConstructed
    /\ api = NotConstructed
    /\ \E p \in VersionSpecs :
           ver = [p |-> p, s |-> <<>>, from |-> "none", parsed |-> NotParsed,
                  matched |-> NoMatch]

\* p.to_string() (version.rs:188-197)
Display ==
    /\ ver.from = "none"
    /\ ver' = [ver EXCEPT !.s = DisplaySpec(ver.p), !.from = "display"]
    /\ UNCHANGED nonVerVars

\* a string arrives from a recipe or the command line
Input(text) ==
    /\ ver.from = "none"
    /\ ver' = [ver EXCEPT !.s = text, !.from = "input"]
    /\ UNCHANGED nonVerVars

\* s.parse::<VersionSpec>() (version.rs:160-185); a spec parsed from an
\* input is the spec at hand from then on
Parse ==
    /\ ver.from # "none"
    /\ ver.parsed = NotParsed
    /\ LET r == FromStr(ver.s)
       IN  ver' = [ver EXCEPT !.parsed = r,
                              !.p = IF ver.from = "input" /\ r.ok
                                    THEN r.value ELSE @]
    /\ UNCHANGED nonVerVars

\* p.matches(version) (version.rs:140-142) on the spec at hand
Matches(version) ==
    /\ ver.from # "input" \/ ver.parsed.ok
    /\ ver' = [ver EXCEPT !.matched =
                   [called |-> TRUE, spec |-> ver.p, version |-> version,
                    result |-> SpecMatches(ver.p, version)]]
    /\ UNCHANGED nonVerVars

NextVer ==
    \/ Display
    \/ \E text \in Texts : Input(text)
    \/ Parse
    \/ \E version \in Candidates : Matches(version)

SpecVer == InitVer /\ [][NextVer]_vars

\* C31: the result of parsing the Display output of a VersionSpec p is Ok
\* and the parsed spec equals p.
C31_DisplayParseRoundTrip ==
    ver.from = "display" /\ ver.parsed # NotParsed =>
        ver.parsed.ok /\ ver.parsed.value = ver.p

\* the output of a spec of two constraints, the first one written with a
\* one-character operator and a two-digit number, was parsed
C31_Witness ==
    /\ ver.from = "display"
    /\ ver.parsed # NotParsed
    /\ Len(ver.p) = 2
    /\ ver.p[1] = [op |-> ">", version |-> Version(1, 10, 3)]
    /\ ver.p[2].op = "~="

\* C32 as stated: matches(v) is true exactly when every clause matches v;
\* parsing ">=1.2,<2.0,!=1.5.0" succeeds, and the parsed spec matches 1.2.0,
\* 1.4.9 and 1.9.9 and rejects 1.1.9, 1.5.0 and 2.0.0.
C32_MatchesEveryClause ==
    /\ ver.matched.called =>
           (ver.matched.result <=>
                \A i \in DOMAIN ver.matched.spec :
                    ConstraintMatches(ver.matched.spec[i], ver.matched.version))
    /\ ver.from = "input" /\ ver.s = ExampleText /\ ver.parsed # NotParsed =>
           /\ ver.parsed.ok
           /\ ver.matched.called /\ ver.matched.spec = ver.parsed.value =>
                  (ver.matched.result <=>
                       ver.matched.version \in
                           {Version(1, 2, 0), Version(1, 4, 9), Version(1, 9, 9)})

(***************************************************************************)
(* Legacy fields of the guard configuration (config/src/guard.rs)          *)
(***************************************************************************)
\* number of apply_legacy_fields calls on one configuration
MaxApplies == 2

\* Option<bool>: None, Some(b)
None == <<>>

Some(b) == <<b>>

OptionBools == {None, Some(TRUE), Some(FALSE)}

\* the two structs that have the legacy fields (guard.rs:105, guard.rs:185)
ConfigStructs == {"VerificationConfig", "GuardConfiguration"}

\* every configuration that deserialization can produce; enabled stands for
\* the fields that have nothing to do with the legacy flags
Configs ==
    [struct : ConfigStructs,
     enabled : BOOLEAN,
     discrepancy_handling : DiscrepancyHandlings,
     user_file_policy : UserFilePolicies,
     fail_on_discrepancy : OptionBools,
     auto_heal : OptionBools,
     preserve_user_files : OptionBools]

\* a configuration has been deserialized; nothing else is constructed
InitLegacy ==
    /\ IdleButCache
    /\ cache = NotConstructed
    /\ fetch = NotConstructed
    /\ rec = NotConstructed
    /\ build = NotConstructed
    /\ tar = NotConstructed
    /\ ver = NotConstructed
    /\ exec = NotConstructed
    /\ api = NotConstructed
    /\ \E c \in Configs :
           vcfg = [cfg |-> c, loaded |-> c, first |-> c, applied |-> 0]

\* the match on (fail_on_discrepancy, auto_heal) (guard.rs:253-263, 303-313)
LegacyHandling(fail, heal, current) ==
    IF fail = Some(TRUE) /\ heal = Some(TRUE) THEN "AutoHealOrFail"
    ELSE IF fail = Some(FALSE) /\ heal = Some(TRUE) THEN "AutoHeal"
    ELSE IF fail = Some(TRUE) /\ heal = Some(FALSE) THEN "FailFast"
    ELSE IF fail = Some(FALSE) /\ heal = Some(FALSE) THEN "ReportOnly"
    ELSE current

\* apply_legacy_fields (guard.rs:251-278, 301-328), the configuration after it
ApplyLegacy(c) ==
    [c EXCEPT
        !.discrepancy_handling =
            LegacyHandling(c.fail_on_discrepancy, c.auto_heal, @),
        !.user_file_policy =
            IF c.preserve_user_files = None THEN @
            ELSE IF c.preserve_user_files = Some(TRUE) THEN "Preserve"
            ELSE "Remove",
        !.fail_on_discrepancy = None,
        !.auto_heal = None,
        !.preserve_user_files = None]

\* should_fail_on_discrepancy (guard.rs:282-287, 332-337)
ShouldFailOnDiscrepancy(handling) == handling \in {"FailFast", "AutoHealOrFail"}

\* apply_legacy_fields on the configuration
ApplyLegacyFields ==
    /\ vcfg.applied < MaxApplies
    /\ vcfg' = [vcfg EXCEPT
                   !.cfg = ApplyLegacy(@),
                   !.first = IF vcfg.applied = 0 THEN ApplyLegacy(vcfg.cfg) ELSE @,
                   !.applied = @ + 1]
    /\ UNCHANGED nonLegacyVars

NextLegacy == ApplyLegacyFields

SpecLegacy == InitLegacy /\ [][NextLegacy]_vars

\* C33 as stated: after apply_legacy_fields, should_fail_on_discrepancy()
\* equals fail_on_discrepancy if that was set, should_auto_heal() equals
\* auto_heal if that was set, user_file_policy is Preserve or Remove as
\* preserve_user_files said if that was set; the three legacy fields are None,
\* no other field has changed, and a second call changes nothing.
C33_LegacyCollapsed ==
    vcfg.applied > 0 =>
        LET c == vcfg.cfg
            was == vcfg.loaded
        IN  /\ was.fail_on_discrepancy # None =>
                   Some(ShouldFailOnDiscrepancy(c.discrepancy_handling))
                       = was.fail_on_discrepancy
            /\ was.auto_heal # None =>
                   Some(ShouldAutoHeal(c.discrepancy_handling)) = was.auto_heal
            /\ was.preserve_user_files = Some(TRUE) =>
                   c.user_file_policy = "Preserve"
            /\ was.preserve_user_files = Some(FALSE) =>
                   c.user_file_policy = "Remove"
            /\ c.fail_on_discrepancy = None
            /\ c.auto_heal = None
            /\ c.preserve_user_files = None
            /\ c.struct = was.struct /\ c.enabled = was.enabled
            /\ was.preserve_user_files = None =>
                   c.user_file_policy = was.user_file_policy
            /\ was.fail_on_discrepancy = None /\ was.auto_heal = None =>
                   c.discrepancy_handling = was.discrepancy_handling
            /\ c = vcfg.first

(***************************************************************************)
(* The execution plan: queries, repeated completion, partial plans         *)
(* (resolver/src/execution.rs)                                             *)
(***************************************************************************)
\* ExecutionPlan::completed_count (execution.rs:195-200)
CompletedCount ==
    Cardinality({p \in DOMAIN metadata : metadata[p].in_degree = 0})

\* ExecutionPlan::ready_packages (execution.rs:147-158), the value returned
Ready == {p \in DOMAIN metadata : metadata[p].in_degree = 0}

\* C34 as stated: is_complete() is true exactly when complete_package has
\* been called for every package of the plan (true once all calls have
\* returned, false while a package has not been passed to complete_package),
\* and completed_count() lies between the number of calls that have returned
\* and the number of calls made.
C34_CompleteIffAllCalled ==
    phase # "input" =>
        /\ (\A p \in DOMAIN metadata : st[p] = "done") => IsComplete
        /\ IsComplete => \A p \in DOMAIN metadata : Called(p)
        /\ CompletedCount >= Cardinality({p \in DOMAIN metadata : st[p] = "done"})
        /\ CompletedCount <= Cardinality({p \in DOMAIN metadata : Called(p)})

\* number of times complete_package is called again for one package
MaxAgain == 1

\* the number of decrements that the calls for p have made on q
Decrements(p, q) == Cardinality({i \in DOMAIN decOrder[q] : decOrder[q][i] = p})

\* complete_package(p) is called once more after a call for p has returned
\* (execution.rs:162-167); nothing in the plan remembers the earlier call
CompleteAgain(p) ==
    /\ phase = "running"
    /\ st[p] = "done"
    /\ \A q \in PackageId : Decrements(p, q) <= MaxAgain
    /\ st' = [st EXCEPT ![p] = "completing"]
    /\ todo' = [todo EXCEPT ![p] =
                    IF p \in DOMAIN metadata THEN metadata[p].parents ELSE {}]
    /\ newly_ready' = [newly_ready EXCEPT ![p] = {}]
    /\ UNCHANGED nonPlanVars
    /\ UNCHANGED <<phase, graph, sorted, batches, metadata, reported, decOrder,
                   returned>>

NextPlanAgain ==
    \/ NextPlan
    \/ \E p \in PackageId : CompleteAgain(p)

\* the plan with callers that may complete a package more than once
SpecPlanAgain == InitPlan /\ [][NextPlanAgain]_vars

\* C37 as stated: every in-degree counter stays between 0 and its initial
\* value, and a dependent that some call has returned as newly ready is not
\* found newly ready by a call again.
C37_NoUnderflow ==
    phase # "input" =>
        /\ \A q \in DOMAIN metadata :
              /\ metadata[q].in_degree >= 0
              /\ metadata[q].in_degree <= InDegree(q, graph.edges)
        /\ \A p, c, q \in PackageId :
              ~(/\ st[p] = "completing"
                /\ q \in newly_ready[p]
                /\ q \in returned[c])

\* a graph over all packages and a sorted list of some of them: the list is
\* what a topological sort of the graph keeps of a subset of the packages
InitPlanPartial ==
    /\ phase = "input"
    /\ \E e \in [PackageId -> SUBSET PackageId], S \in SUBSET PackageId :
          \E all \in Perms(PackageId) :
              LET InS(p) == p \in S
              IN  /\ IsTopoSort(all, PackageId, e)
                  /\ sorted = SelectSeq(all, InS)
                  /\ graph = [nodes |-> PackageId, edges |-> e]
    /\ batches = <<>>
    /\ metadata = <<>>
    /\ st = [p \in PackageId |-> "idle"]
    /\ todo = [p \in PackageId |-> {}]
    /\ newly_ready = [p \in PackageId |-> {}]
    /\ reported = {}
    /\ decOrder = [p \in PackageId |-> <<>>]
    /\ returned = [p \in PackageId |-> {}]
    /\ IdleMoreVars
    /\ InitTxnVars
    /\ state_retention = MaxRetention
    /\ IdleGuardVars
    /\ IdleResVars

\* the plan of a sorted list that need not hold every package of the graph
SpecPlanPartial == InitPlanPartial /\ [][NextPlan]_vars

\* C38 as stated: on the fresh plan ready_packages() is the set of the
\* packages of batch 0, and the in-degree of each package is the number of
\* its dependencies among the planned packages.
C38_ReadyIsFirstBatch ==
    phase = "planned" =>
        /\ Ready = IF batches = <<>> THEN {} ELSE batches[1]
        /\ \A p \in DOMAIN metadata :
              metadata[p].in_degree
                  = Cardinality(DepsOf(p, graph.edges) \cap Range(sorted))

(***************************************************************************)
(* ErrorRecoveryManager: FailFast and the statistics                       *)
(* (install/src/validation/pipeline/recovery.rs)                           *)
(***************************************************************************)
\* the step has failed at once: resilient_validation returns the error of
\* the operation, the ValidationResult is as it was and nothing counts as
\* recovered
FailedAtOnce ==
    /\ rec'.rret = [fn |-> "resilient_validation", kind |-> "Err"]
    /\ rec'.rerr = "original"
    /\ rec'.vresult = rec.vresult
    /\ rec'.recovery_stats.recovered_errors = 0

C39_StatsConsistent ==
    LET stats == rec.recovery_stats
    IN  /\ stats.total_errors = rec.error_count
        /\ stats.recovered_errors <= stats.total_errors
        /\ stats.errors_to_warnings + stats.skipped_operations
               <= stats.recovered_errors
        /\ stats.total_errors > 0 =>
               stats.success_rate[1] * stats.total_errors
                   = stats.recovered_errors * stats.success_rate[2]

(***************************************************************************)
(* execute_command, the read loop (builder/src/environment/execution.rs)   *)
(***************************************************************************)
\* number of lines that a child writes to one stream
MaxLines == 2

\* the first n lines of a stream
Lines(stream, n) == [i \in 1..n |-> <<stream, i>>]

\* a child that will write n lines to stdout and m lines to stderr has been
\* spawned and the loop is entered (execution.rs:95-109)
Spawned(n, m) ==
    [out |-> Lines("stdout", n), err |-> Lines("stderr", m),
     wout |-> 0, werr |-> 0, closed_out |-> FALSE, closed_err |-> FALSE,
     nout |-> 0, nerr |-> 0, stdout_lines |-> <<>>, stderr_lines |-> <<>>,
     events |-> <<>>, err_eof |-> FALSE, pc |-> "loop"]

InitExec ==
    /\ IdleButCache
    /\ cache = NotConstructed
    /\ fetch = NotConstructed
    /\ rec = NotConstructed
    /\ build = NotConstructed
    /\ tar = NotConstructed
    /\ ver = NotConstructed
    /\ vcfg = NotConstructed
    /\ api = NotConstructed
    /\ \E n, m \in 0..MaxLines : exec = Spawned(n, m)

\* the child writes its next line to stdout
ChildWriteStdout ==
    /\ ~exec.closed_out
    /\ exec.wout < Len(exec.out)
    /\ exec' = [exec EXCEPT !.wout = @ + 1]
    /\ UNCHANGED nonExecVars

\* the child writes its next line to stderr
ChildWriteStderr ==
    /\ ~exec.closed_err
    /\ exec.werr < Len(exec.err)
    /\ exec' = [exec EXCEPT !.werr = @ + 1]
    /\ UNCHANGED nonExecVars

\* the child closes stdout, by itself or by exiting
ChildCloseStdout ==
    /\ ~exec.closed_out
    /\ exec.wout = Len(exec.out)
    /\ exec' = [exec EXCEPT !.closed_out = TRUE]
    /\ UNCHANGED nonExecVars

\* the child closes stderr, by itself or by exiting
ChildCloseStderr ==
    /\ ~exec.closed_err
    /\ exec.werr = Len(exec.err)
    /\ exec' = [exec EXCEPT !.closed_err = TRUE]
    /\ UNCHANGED nonExecVars

\* send_build_output (execution.rs:171-185)
SendBuildOutput(events, line, is_error) ==
    Append(events, [stderr |-> is_error, line |-> line])

\* select! takes the stdout branch with Ok(Some(line)) (execution.rs:111-117)
StdoutLine ==
    /\ exec.pc = "loop"
    /\ exec.nout < exec.wout
    /\ LET line == exec.out[exec.nout + 1]
       IN  exec' = [exec EXCEPT
                       !.nout = @ + 1,
                       !.events = SendBuildOutput(@, line, FALSE),
                       !.stdout_lines = Append(@, line)]
    /\ UNCHANGED nonExecVars

\* select! takes the stdout branch with Ok(None): break (execution.rs:118)
StdoutEof ==
    /\ exec.pc = "loop"
    /\ exec.nout = exec.wout
    /\ exec.closed_out
    /\ exec' = [exec EXCEPT !.pc = "wait"]
    /\ UNCHANGED nonExecVars

\* select! takes the stderr branch with Ok(Some(line)) (execution.rs:126-132)
StderrLine ==
    /\ exec.pc = "loop"
    /\ exec.nerr < exec.werr
    /\ LET line == exec.err[exec.nerr + 1]
       IN  exec' = [exec EXCEPT
                       !.nerr = @ + 1,
                       !.events = SendBuildOutput(@, line, TRUE),
                       !.stderr_lines = Append(@, line)]
    /\ UNCHANGED nonExecVars

\* select! takes the stderr branch with Ok(None): the loop goes on
\* (execution.rs:133)
StderrEof ==
    /\ exec.pc = "loop"
    /\ exec.nerr = exec.werr
    /\ exec.closed_err
    /\ exec' = [exec EXCEPT !.err_eof = TRUE]
    /\ UNCHANGED nonExecVars

\* child.wait() returns once the child has exited, and the result is built
\* from the two vectors (execution.rs:144-153)
ChildWait ==
    /\ exec.pc = "wait"
    /\ exec.closed_out /\ exec.closed_err
    /\ exec' = [exec EXCEPT !.pc = "returned"]
    /\ UNCHANGED nonExecVars

NextExec ==
    \/ ChildWriteStdout
    \/ ChildWriteStderr
    \/ ChildCloseStdout
    \/ ChildCloseStderr
    \/ StdoutLine
    \/ StdoutEof
    \/ StderrLine
    \/ StderrEof
    \/ ChildWait

SpecExec == InitExec /\ [][NextExec]_vars

\* the lines of the events of one stream, in the order sent
EventLines(is_error) ==
    LET OfStream(ev) == ev.stderr = is_error
        evs == SelectSeq(exec.events, OfStream)
    IN  [i \in DOMAIN evs |-> evs[i].line]

\* C36 as stated: when execute_command returns, stdout and stderr of the
\* result and the events hold every line that the child wrote to stdout and
\* to stderr, in the order written.
C36_AllOutputCaptured ==
    exec.pc = "returned" =>
        /\ exec.stdout_lines = exec.out
        /\ exec.stderr_lines = exec.err
        /\ EventLines(FALSE) = exec.out
        /\ EventLines(TRUE) = exec.err

(***************************************************************************)
(* Downloads, patches and build-system steps (builder/src/api.rs)          *)
(***************************************************************************)
\* the urls of a recipe, each split at its dots
SourceUrls == {<<"src", "tar", "gz">>, <<"extra", "zip">>, <<"fix", "patch">>}

\* the files of the source tree
SourceFiles == {"configure", "main.c", "extra.c"}

\* the files that the archive behind a url holds, top-level directory stripped
ArchiveFiles(url) ==
    CASE url = <<"src", "tar", "gz">> -> {"configure", "main.c"}
      [] url = <<"extra", "zip">> -> {"main.c", "extra.c"}
      [] OTHER -> {}

\* path.extension()
Extension(url) == url[Len(url)]

\* the build-system methods that start with extract_downloads
BuildSystems ==
    {"autotools", "cmake", "meson", "cargo", "go", "python", "nodejs", "configure"}

\* extract_single_download: every entry of a known archive format is written
\* over the file at its path (api.rs:634-656, 709-756, 862-889)
ExtractSingleDownload(tree, url) ==
    IF Extension(url) \in {"gz", "tgz", "bz2", "xz", "zip"}
    THEN [f \in SourceFiles |-> IF f \in ArchiveFiles(url) THEN <<url, f>> ELSE tree[f]]
    ELSE tree

\* extract_downloads: the downloads in the order the map yields them
\* (api.rs:622-627)
RECURSIVE ExtractDownloads(_, _)
ExtractDownloads(tree, order) ==
    IF order = <<>> THEN tree
    ELSE ExtractDownloads(ExtractSingleDownload(tree, Head(order)), Tail(order))

\* BuilderApi::new (api.rs:38-55)
InitApi ==
    /\ IdleButCache
    /\ cache = NotConstructed
    /\ fetch = NotConstructed
    /\ rec = NotConstructed
    /\ build = NotConstructed
    /\ tar = NotConstructed
    /\ ver = NotConstructed
    /\ vcfg = NotConstructed
    /\ exec = NotConstructed
    /\ api = [downloads |-> {}, files |-> [f \in SourceFiles |-> <<>>],
              last |-> "new", result |-> "Ok"]

\* fetch (api.rs:77-125)
Fetch(url, hash_ok) ==
    /\ api' =
         IF url \in api.downloads
         THEN [api EXCEPT !.last = "fetch", !.result = "Ok"]
         ELSE IF ~hash_ok
         THEN [api EXCEPT !.last = "fetch", !.result = "Err"]
         ELSE [api EXCEPT !.downloads = @ \cup {url},
                          !.files = ExtractSingleDownload(@, url),
                          !.last = "fetch", !.result = "Ok"]
    /\ UNCHANGED nonApiVars

\* a file as patch leaves it
Patch(content) == Append(content, "patched")

\* the file was modified after its extraction
IsPatched(content) == content # <<>> /\ content[Len(content)] = "patched"

\* apply_patch with a patch for file f: patch changes the file when it is
\* there as extracted, and fails otherwise (api.rs:210-221)
ApplyPatch(f) ==
    /\ api' =
         IF api.files[f] # <<>> /\ ~IsPatched(api.files[f])
         THEN [api EXCEPT !.files[f] = Patch(@),
                          !.last = "apply_patch", !.result = "Ok"]
         ELSE [api EXCEPT !.last = "apply_patch", !.result = "Err"]
    /\ UNCHANGED nonApiVars

\* the start of autotools, cmake, meson, cargo, go, python, nodejs and
\* configure: extract_downloads, then the commands of the build system
\* (api.rs:228-237, 265-274, 307-316, 352-361, 389-398, 426-435, 472-481,
\* 509-516)
BuildSystemStep(system) ==
    /\ \E order \in Perms(api.downloads) :
         api' = [api EXCEPT !.files = ExtractDownloads(@, order),
                            !.last = system, !.result = "Ok"]
    /\ UNCHANGED nonApiVars

\* make: no extraction (api.rs:539-560)
Make ==
    /\ api' = [api EXCEPT !.last = "make", !.result = "Ok"]
    /\ UNCHANGED nonApiVars

NextApi ==
    \/ \E url \in SourceUrls, hash_ok \in BOOLEAN : Fetch(url, hash_ok)
    \/ \E f \in SourceFiles : ApplyPatch(f)
    \/ \E system \in BuildSystems : BuildSystemStep(system)
    \/ Make

SpecApi == InitApi /\ [][NextApi]_vars

\* C40 as stated: a source file modified after extraction is the same after
\* the start of a build-system step (autotools, cmake, meson, cargo, go,
\* python, nodejs, configure) as before it.
C40_PatchedFilesKept ==
    [][api'.last \in BuildSystems =>
         \A f \in SourceFiles :
             IsPatched(api.files[f]) => api'.files[f] = api.files[f]]_vars

====
